---- MODULE Spec2Model ----
(***************************************************************************)
(* FinGenius receipt field extraction engine (ocr_processor.py):           *)
(* ReceiptProcessor.extract_text, extract_amount, extract_merchant,        *)
(* extract_date, categorize_expense, calculate_confidence and              *)
(* process_receipt.                                                        *)
(*                                                                         *)
(* A Python str is a sequence of one-character strings.  An Optional value *)
(* is a sequence of length at most one: None is <<>> and a present value v *)
(* is <<v>>, so that None and the empty string differ.  A float amount is  *)
(* an integer number of units of 10^-FracDigits; a confidence score is an  *)
(* integer number of hundredths.                                           *)
(***************************************************************************)
EXTENDS Integers, Sequences, FiniteSets, TLC

VARIABLES
    easyocr_reader,   \* self.easyocr_reader is set (TRUE) or is None (FALSE)
    fn,               \* the method of the current or last call
    pc,               \* position of the current process_receipt call
    faults,           \* the sub-extractors that end in their except branch
    config_i,         \* extract_text: index of the next configuration
    best_text,        \* extract_text: best_text
    backend_log,      \* the OCR backends the current call invoked, in order
    exc,              \* the exception that is propagating, or None
    cur_text,         \* the text argument, or the text extract_text returned
    cur_amount,       \* the amount argument or local
    cur_merchant,     \* the merchant argument or local
    cur_date,         \* the date argument or local
    cur_category,     \* process_receipt: category
    ret,              \* what the last direct call returned, as Some(value)
    result,           \* the dictionary the last process_receipt returned
    raised,           \* the last call raised to its caller
    web               \* the receipt files on disk and the requests being served

\* the state of one call on the processor
call_vars == <<easyocr_reader, fn, pc, faults, config_i, best_text, backend_log, exc,
               cur_text, cur_amount, cur_merchant, cur_date, cur_category, ret, result,
               raised>>

vars == <<call_vars, web>>

----------------------------------------------------------------------------
(* Optional values *)

None == <<>>

Some(v) == <<v>>

----------------------------------------------------------------------------
(* Characters and str methods *)

DigitSeq == <<"0","1","2","3","4","5","6","7","8","9">>

UpperSeq == <<"A","B","C","D","E","F","G","H","I","J","K","L","M",
              "N","O","P","Q","R","S","T","U","V","W","X","Y","Z">>

LowerSeq == <<"a","b","c","d","e","f","g","h","i","j","k","l","m",
              "n","o","p","q","r","s","t","u","v","w","x","y","z">>

Digits == {DigitSeq[i] : i \in DOMAIN DigitSeq}

Uppers == {UpperSeq[i] : i \in DOMAIN UpperSeq}

Lowers == {LowerSeq[i] : i \in DOMAIN LowerSeq}

Letters == Uppers \cup Lowers

\* \s
Spaces == {" ", "\t", "\n", "\r"}

\* \w
WordChars == Letters \cup Digits \cup {"_"}

\* [\$...]: the currency class of the amount patterns; its other members
\* are non-ASCII characters, which the modelled texts do not contain
CurrencyChars == {"$"}

DigitValue == [c \in Digits |-> (CHOOSE i \in DOMAIN DigitSeq : DigitSeq[i] = c) - 1]

ToLower == [c \in Uppers |-> LowerSeq[CHOOSE i \in DOMAIN UpperSeq : UpperSeq[i] = c]]

lower_char(c) == IF c \in Uppers THEN ToLower[c] ELSE c

\* str.lower()
lower(s) == [i \in 1..Len(s) |-> lower_char(s[i])]

\* the character at 1-based position i, or "" beyond either end
At(s, i) == IF i >= 1 /\ i <= Len(s) THEN s[i] ELSE ""

\* the first position >= i whose character is not in S
RECURSIVE SkipSet(_, _, _)
SkipSet(s, i, S) == IF i <= Len(s) /\ s[i] \in S THEN SkipSet(s, i + 1, S) ELSE i

\* str.strip()
strip(s) ==
    LET a == SkipSet(s, 1, Spaces)
        keep == {i \in 1..Len(s) : s[i] \notin Spaces}
        b == IF keep = {} THEN 0 ELSE CHOOSE i \in keep : \A j \in keep : j <= i
    IN  SubSeq(s, a, b)

\* str.split('\n')
RECURSIVE split_lines(_)
split_lines(s) ==
    IF \A i \in 1..Len(s) : s[i] # "\n"
    THEN <<s>>
    ELSE LET k == CHOOSE i \in 1..Len(s) :
                      s[i] = "\n" /\ \A j \in 1..(i - 1) : s[j] # "\n"
         IN  <<SubSeq(s, 1, k - 1)>> \o split_lines(SubSeq(s, k + 1, Len(s)))

\* "\n".join(lines)
RECURSIVE join_lines(_)
join_lines(ls) ==
    IF Len(ls) = 0 THEN <<>>
    ELSE IF Len(ls) = 1 THEN ls[1]
    ELSE ls[1] \o <<"\n">> \o join_lines(Tail(ls))

\* needle in hay
IsSubstring(needle, hay) ==
    \E i \in 0..(Len(hay) - Len(needle)) :
        \A k \in 1..Len(needle) : hay[i + k] = needle[k]

\* the lowercase word w is at position i of s, in any case
HasAtCI(s, i, w) ==
    /\ i >= 1
    /\ i + Len(w) - 1 <= Len(s)
    /\ \A k \in 1..Len(w) : lower_char(s[i + k - 1]) = w[k]

\* \b at position i: exactly one of the characters before and at i is a \w
WordBoundary(s, i) == (At(s, i - 1) \in WordChars) # (At(s, i) \in WordChars)

\* int(digits) for a string of digits
RECURSIVE StrToNat(_)
StrToNat(ds) ==
    IF Len(ds) = 0 THEN 0
    ELSE 10 * StrToNat(SubSeq(ds, 1, Len(ds) - 1)) + DigitValue[ds[Len(ds)]]

\* str(n) for a natural number n
RECURSIVE NatToStr(_)
NatToStr(n) ==
    IF n < 10 THEN <<DigitSeq[n + 1]>>
    ELSE NatToStr(n \div 10) \o <<DigitSeq[(n % 10) + 1]>>

\* f"{n:02d}" and str.zfill(2) of a digit string
Pad2(ds) == IF Len(ds) < 2 THEN <<"0">> \o ds ELSE ds

RECURSIVE Pow10(_)
Pow10(n) == IF n = 0 THEN 1 ELSE 10 * Pow10(n - 1)

NoMatch == [ok |-> FALSE, end |-> 0, g |-> <<>>]

Match(e, g) == [ok |-> TRUE, end |-> e, g |-> g]

----------------------------------------------------------------------------
(* extract_amount *)

\* the number of fractional digits an amount keeps: the texts of the model
\* write amounts with at most this many
FracDigits == 2

\* 1.0 as an amount
Scale == Pow10(FracDigits)

\* n hundredths as an amount
Cents(n) == n * (Scale \div 100)

\* (\d+[,.]?\d*) at position j
NumberAt(s, j) ==
    IF At(s, j) \notin Digits THEN NoMatch
    ELSE LET d1 == SkipSet(s, j, Digits)
             d2 == IF At(s, d1) \in {",", "."} THEN d1 + 1 ELSE d1
             d3 == SkipSet(s, d2, Digits)
         IN  Match(d3, SubSeq(s, j, d3 - 1))

\* label[:\s]*[\$...]?\s*(\d+[,.]?\d*) at position i, the label in any case
LabelledAmountAt(s, i, label) ==
    IF ~HasAtCI(s, i, label) THEN NoMatch
    ELSE LET j1 == SkipSet(s, i + Len(label), {":"} \cup Spaces)
             j2 == IF At(s, j1) \in CurrencyChars THEN j1 + 1 ELSE j1
             j3 == SkipSet(s, j2, Spaces)
         IN  NumberAt(s, j3)

\* [\$...]\s*(\d+[,.]?\d*) at position i
SymbolAmountAt(s, i) ==
    IF At(s, i) \notin CurrencyChars THEN NoMatch
    ELSE NumberAt(s, SkipSet(s, i + 1, Spaces))

\* (\d+ sep \d{2}) at position i, sep one of seps
DecimalAt(s, i, seps) ==
    IF At(s, i) \notin Digits THEN NoMatch
    ELSE LET d1 == SkipSet(s, i, Digits)
         IN  IF /\ At(s, d1) \in seps
                /\ At(s, d1 + 1) \in Digits
                /\ At(s, d1 + 2) \in Digits
             THEN Match(d1 + 3, SubSeq(s, i, d1 + 2))
             ELSE NoMatch

\* (\d+[,.]\d{2})\s*[\$...] at position i
AmountSymbolAt(s, i) ==
    LET m == DecimalAt(s, i, {",", "."})
        e == SkipSet(s, m.end, Spaces)
    IN  IF m.ok /\ At(s, e) \in CurrencyChars THEN Match(e + 1, m.g) ELSE NoMatch

\* \b(\d{1,3}[,.]\d{2,3}[,.]\d{2,3}[,.]\d{2})\b at position i
GroupedAt(s, i) ==
    LET r1 == SkipSet(s, i, Digits)
        r2 == SkipSet(s, r1 + 1, Digits)
        r3 == SkipSet(s, r2 + 1, Digits)
        e  == r3 + 3
    IN  IF /\ WordBoundary(s, i)
           /\ (r1 - i) \in 1..3
           /\ At(s, r1) \in {",", "."}
           /\ (r2 - (r1 + 1)) \in 2..3
           /\ At(s, r2) \in {",", "."}
           /\ (r3 - (r2 + 1)) \in 2..3
           /\ At(s, r3) \in {",", "."}
           /\ At(s, r3 + 1) \in Digits
           /\ At(s, r3 + 2) \in Digits
           /\ WordBoundary(s, e)
        THEN Match(e, SubSeq(s, i, e - 1))
        ELSE NoMatch

\* \b(\d+\.\d{2})\b at position i
StandaloneAt(s, i) ==
    LET m == DecimalAt(s, i, {"."})
    IN  IF m.ok /\ WordBoundary(s, i) /\ WordBoundary(s, m.end) THEN m ELSE NoMatch

\* currency_patterns[p - 1] matched at position i of s
AmountMatchAt(p, s, i) ==
    CASE p = 1 -> LabelledAmountAt(s, i, <<"t","o","t","a","l">>)
      [] p = 2 -> LabelledAmountAt(s, i, <<"a","m","o","u","n","t">>)
      [] p = 3 -> SymbolAmountAt(s, i)
      [] p = 4 -> AmountSymbolAt(s, i)
      [] p = 5 -> DecimalAt(s, i, {"."})
      [] p = 6 -> DecimalAt(s, i, {","})
      [] p = 7 -> GroupedAt(s, i)
      [] p = 8 -> StandaloneAt(s, i)

\* len(currency_patterns)
NumAmountPatterns == 8

\* re.findall(currency_patterns[p - 1], s, re.IGNORECASE), scanning from i
RECURSIVE AmountFindAll(_, _, _)
AmountFindAll(p, s, i) ==
    IF i > Len(s) THEN <<>>
    ELSE LET m == AmountMatchAt(p, s, i)
         IN  IF m.ok
             THEN <<m.g>> \o AmountFindAll(p, s, IF m.end > i THEN m.end ELSE i + 1)
             ELSE AmountFindAll(p, s, i + 1)

\* match.replace(',', '').replace(' ', ''), then the European-format branch
clean_amount(match) ==
    LET c == SelectSeq(match, LAMBDA ch : ch \notin {",", " "})
        has(ch) == \E i \in 1..Len(c) : c[i] = ch
    IN  IF has(",") /\ ~has(".")
        THEN [i \in 1..Len(c) |-> IF c[i] = "," THEN "." ELSE c[i]]
        ELSE c

\* float(c): None when it raises ValueError
to_float(c) ==
    LET dots == {i \in 1..Len(c) : c[i] = "."}
        dot  == IF dots = {} THEN Len(c) + 1 ELSE CHOOSE i \in dots : TRUE
        ip   == SubSeq(c, 1, dot - 1)
        fp   == SubSeq(c, dot + 1, Len(c))
        fpF  == [k \in 1..FracDigits |-> IF k <= Len(fp) THEN fp[k] ELSE "0"]
    IN  IF \/ Cardinality(dots) > 1
           \/ Len(ip) + Len(fp) = 0
           \/ \E i \in 1..Len(c) : c[i] \notin Digits \cup {"."}
        THEN None
        ELSE Some(StrToNat(ip) * Scale + StrToNat(fpF))

\* the range test that lets every amount pass
in_amount_range_any(amount) == TRUE

\* 0.01 <= amount <= 999999.99
in_amount_range(amount) == Cents(1) <= amount /\ amount <= Cents(99999999)

\* the amounts the matches of one pattern on one line append to amounts
RECURSIVE amounts_of_matches(_)
amounts_of_matches(matches) ==
    IF Len(matches) = 0 THEN <<>>
    ELSE LET v == to_float(clean_amount(Head(matches)))
         IN  (IF v # None /\ in_amount_range(v[1]) THEN v ELSE <<>>)
                 \o amounts_of_matches(Tail(matches))

\* the amounts patterns p.. append for one stripped line
RECURSIVE amounts_of_line(_, _)
amounts_of_line(line, p) ==
    IF p > NumAmountPatterns THEN <<>>
    ELSE amounts_of_matches(AmountFindAll(p, line, 1)) \o amounts_of_line(line, p + 1)

\* amounts after the scan of lines
RECURSIVE amounts_of_lines(_)
amounts_of_lines(lines) ==
    IF Len(lines) = 0 THEN <<>>
    ELSE amounts_of_line(strip(Head(lines)), 1) \o amounts_of_lines(Tail(lines))

Count(seq, v) == Cardinality({i \in DOMAIN seq : seq[i] = v})

\* Counter(amounts).most_common()[0]: the highest count, and among the values
\* that have it the one inserted first
most_common_first(amounts) ==
    LET top == CHOOSE n \in {Count(amounts, amounts[i]) : i \in DOMAIN amounts} :
                   \A i \in DOMAIN amounts : Count(amounts, amounts[i]) <= n
        k   == CHOOSE i \in DOMAIN amounts :
                   /\ Count(amounts, amounts[i]) = top
                   /\ \A j \in 1..(i - 1) : Count(amounts, amounts[j]) < top
    IN  [value |-> amounts[k], count |-> top]

\* str(amount) of a float
float_str(amount) ==
    LET fr == amount % Scale
        ds == [k \in 1..FracDigits |-> DigitSeq[((fr \div Pow10(FracDigits - k)) % 10) + 1]]
        nz == {k \in 1..FracDigits : ds[k] # "0"}
        n  == IF nz = {} THEN 1 ELSE CHOOSE k \in nz : \A j \in nz : j <= k
    IN  NatToStr(amount \div Scale) \o <<".">> \o SubSeq(ds, 1, n)

\* str(int(amount))
int_str(amount) == NatToStr(amount \div Scale)

\* re.search(r'[Tt][Oo][Tt][Aa][Ll]|[Aa][Mm][Oo][Uu][Nn][Tt]', line)
is_total_line(line) ==
    \/ IsSubstring(<<"t","o","t","a","l">>, lower(line))
    \/ IsSubstring(<<"a","m","o","u","n","t">>, lower(line))

\* the window of lines around line idx, 1-based
near_window(lines, idx) ==
    (IF idx - 2 < 1 THEN 1 ELSE idx - 2)..(IF idx + 2 > Len(lines) THEN Len(lines) ELSE idx + 2)

\* the triples (total line, window line, amount index) at which the
\* near-total loops return
near_total_hits(lines, amounts) ==
    {h \in {i \in 1..Len(lines) : is_total_line(lines[i])}
              \X (1..Len(lines)) \X (1..Len(amounts)) :
        /\ h[2] \in near_window(lines, h[1])
        /\ \/ IsSubstring(float_str(amounts[h[3]]), lines[h[2]])
           \/ IsSubstring(int_str(amounts[h[3]]), lines[h[2]])}

LexLeq(a, b) ==
    \/ a[1] < b[1]
    \/ a[1] = b[1] /\ a[2] < b[2]
    \/ a[1] = b[1] /\ a[2] = b[2] /\ a[3] <= b[3]

\* max(amounts)
max_amount(amounts) ==
    CHOOSE v \in {amounts[i] : i \in DOMAIN amounts} :
        \A i \in DOMAIN amounts : amounts[i] <= v

\* the choice extract_amount makes among a non-empty list of amounts
choose_amount(lines, amounts) ==
    LET mc   == most_common_first(amounts)
        hits == near_total_hits(lines, amounts)
    IN  IF mc.count > 1 THEN mc.value
        ELSE IF hits # {}
        THEN amounts[(CHOOSE h \in hits : \A h2 \in hits : LexLeq(h, h2))[3]]
        ELSE max_amount(amounts)

\* extract_amount with 0.0 for "not found"
extract_amount_zero(t) ==
    LET lines   == split_lines(t)
        amounts == amounts_of_lines(lines)
    IN  IF Len(amounts) > 0 THEN Some(choose_amount(lines, amounts)) ELSE Some(0)

\* ReceiptProcessor.extract_amount(text)
extract_amount(t) ==
    LET lines   == split_lines(t)
        amounts == amounts_of_lines(lines)
    IN  IF Len(amounts) > 0 THEN Some(choose_amount(lines, amounts)) ELSE None

----------------------------------------------------------------------------
(* extract_date *)

\* the keys of month_names, in the order of their values '01'..'12'
MonthNames == << <<"j","a","n">>, <<"f","e","b">>, <<"m","a","r">>, <<"a","p","r">>,
                 <<"m","a","y">>, <<"j","u","n">>, <<"j","u","l">>, <<"a","u","g">>,
                 <<"s","e","p">>, <<"o","c","t">>, <<"n","o","v">>, <<"d","e","c">> >>

\* month_names.get(month.lower()[:3])
month_num(month) ==
    LET key == SubSeq(lower(month), 1, 3)
        hit == {k \in DOMAIN MonthNames : MonthNames[k] = key}
    IN  IF hit = {} THEN None ELSE Some(Pad2(NatToStr(CHOOSE k \in hit : TRUE)))

DateSeps == {"/", "-"}

\* the number of digits from position i on
DigitRun(s, i) == SkipSet(s, i, Digits) - i

\* (Jan|Feb|...|Dec) at position i, in any case
MonthAt(s, i) == \E k \in DOMAIN MonthNames : HasAtCI(s, i, MonthNames[k])

\* (\d{1,2})[/-](\d{1,2})[/-](\d{n}) at position i
DayMonthYearAt(s, i, n) ==
    LET a == DigitRun(s, i)
        j == i + a + 1
        b == DigitRun(s, j)
        k == j + b + 1
    IN  IF /\ a \in 1..2
           /\ At(s, i + a) \in DateSeps
           /\ b \in 1..2
           /\ At(s, j + b) \in DateSeps
           /\ DigitRun(s, k) >= n
        THEN Match(k + n, <<SubSeq(s, i, i + a - 1), SubSeq(s, j, j + b - 1),
                            SubSeq(s, k, k + n - 1)>>)
        ELSE NoMatch

\* (\d{4})[/-](\d{1,2})[/-](\d{1,2}) at position i
YearMonthDayAt(s, i) ==
    LET j == i + 5
        b == DigitRun(s, j)
        k == j + b + 1
        c == IF DigitRun(s, k) >= 2 THEN 2 ELSE DigitRun(s, k)
    IN  IF /\ DigitRun(s, i) >= 4
           /\ At(s, i + 4) \in DateSeps
           /\ b \in 1..2
           /\ At(s, j + b) \in DateSeps
           /\ c >= 1
        THEN Match(k + c, <<SubSeq(s, i, i + 3), SubSeq(s, j, j + b - 1),
                            SubSeq(s, k, k + c - 1)>>)
        ELSE NoMatch

\* \s*,?\s*(\d{4}) at position i: the position after it, or 0
YearTailAt(s, i) ==
    LET j1 == SkipSet(s, i, Spaces)
        j2 == IF At(s, j1) = "," THEN j1 + 1 ELSE j1
        j3 == SkipSet(s, j2, Spaces)
    IN  IF DigitRun(s, j3) >= 4 THEN j3 + 4 ELSE 0

\* (\d{1,2})\s+(Jan|...|Dec)[a-z]*\s*,?\s*(\d{4}) at position i
DayMonthNameAt(s, i) ==
    LET a == DigitRun(s, i)
        j == SkipSet(s, i + a, Spaces)
        l == SkipSet(s, j + 3, Letters)
        e == YearTailAt(s, l)
    IN  IF a \in 1..2 /\ j > i + a /\ MonthAt(s, j) /\ e > 0
        THEN Match(e, <<SubSeq(s, i, i + a - 1), SubSeq(s, j, j + 2),
                        SubSeq(s, e - 4, e - 1)>>)
        ELSE NoMatch

\* [a-z]*,?\s*(\d{4}) at position i: the position after it, or 0
SuffixYearAt(s, i) ==
    LET j1 == SkipSet(s, i, Letters)
        j2 == IF At(s, j1) = "," THEN j1 + 1 ELSE j1
        j3 == SkipSet(s, j2, Spaces)
    IN  IF DigitRun(s, j3) >= 4 THEN j3 + 4 ELSE 0

\* (Jan|...|Dec)[a-z]*\s+(\d{1,2})[a-z]*,?\s*(\d{4}) at position i: the day
\* takes two digits if the rest then matches, else one
MonthNameDayAt(s, i) ==
    LET l  == SkipSet(s, i + 3, Letters)
        j  == SkipSet(s, l, Spaces)
        e2 == IF DigitRun(s, j) >= 2 THEN SuffixYearAt(s, j + 2) ELSE 0
        e1 == IF DigitRun(s, j) >= 1 THEN SuffixYearAt(s, j + 1) ELSE 0
        a  == IF e2 > 0 THEN 2 ELSE 1
        e  == IF e2 > 0 THEN e2 ELSE e1
    IN  IF MonthAt(s, i) /\ j > l /\ e > 0
        THEN Match(e, <<SubSeq(s, i, i + 2), SubSeq(s, j, j + a - 1),
                        SubSeq(s, e - 4, e - 1)>>)
        ELSE NoMatch

\* (\d{8}) at position i: one group, so findall yields the string itself
CompactAt(s, i) ==
    IF DigitRun(s, i) >= 8 THEN Match(i + 8, SubSeq(s, i, i + 7)) ELSE NoMatch

\* date_patterns[p - 1] matched at position i of s
DateMatchAt(p, s, i) ==
    CASE p = 1 -> DayMonthYearAt(s, i, 4)
      [] p = 2 -> YearMonthDayAt(s, i)
      [] p = 3 -> DayMonthNameAt(s, i)
      [] p = 4 -> DayMonthYearAt(s, i, 2)
      [] p = 5 -> MonthNameDayAt(s, i)
      [] p = 6 -> CompactAt(s, i)

\* len(date_patterns)
NumDatePatterns == 6

\* re.findall(date_patterns[p - 1], s, re.IGNORECASE), scanning from i
RECURSIVE DateFindAll(_, _, _)
DateFindAll(p, s, i) ==
    IF i > Len(s) THEN <<>>
    ELSE LET m == DateMatchAt(p, s, i)
         IN  IF m.ok
             THEN <<m.g>> \o DateFindAll(p, s, IF m.end > i THEN m.end ELSE i + 1)
             ELSE DateFindAll(p, s, i + 1)

\* every two-digit year taken as a year of this century
two_digit_year_2000(year) == year + 2000

\* year += 2000 if year < 50 else 1900
two_digit_year(year) == IF year < 50 THEN year + 2000 ELSE year + 1900

\* 1 <= month <= 12 and 1 <= day <= 31
valid_month_day(month, day) == 1 <= month /\ month <= 12 /\ 1 <= day /\ day <= 31

\* f"{year}-{month}-{day}" of three strings
date_str(year, month, day) == year \o <<"-">> \o month \o <<"-">> \o day

\* the text-month branch for (day, month, year)
text_month_date(day, month, year) ==
    LET mn == month_num(month)
        y  == StrToNat(year)
    IN  IF mn = None THEN None
        ELSE Some(date_str(NatToStr(IF y < 100 THEN two_digit_year(y) ELSE y),
                           mn[1], Pad2(day)))

\* the numeric branch for a match of three groups
numeric_date(match) ==
    LET four  == Len(match[3]) = 4 \/ Len(match[1]) = 4
        year  == IF four
                 THEN StrToNat(IF Len(match[1]) = 4 THEN match[1] ELSE match[3])
                 ELSE two_digit_year(StrToNat(match[3]))
        month == IF four THEN StrToNat(match[2]) ELSE StrToNat(match[1])
        day   == IF four
                 THEN StrToNat(IF Len(match[1]) = 4 THEN match[3] ELSE match[1])
                 ELSE StrToNat(match[2])
    IN  IF valid_month_day(month, day)
        THEN Some(date_str(NatToStr(year), Pad2(NatToStr(month)), Pad2(NatToStr(day))))
        ELSE None

\* the YYYYMMDD branch for date_str = match[0]
compact_date(ds) ==
    LET month == StrToNat(SubSeq(ds, 5, 6))
        day   == StrToNat(SubSeq(ds, 7, 8))
    IN  IF Len(ds) = 8 /\ valid_month_day(month, day)
        THEN Some(date_str(NatToStr(StrToNat(SubSeq(ds, 1, 4))),
                           Pad2(NatToStr(month)), Pad2(NatToStr(day))))
        ELSE None

\* the body of the loop over matches: the date returned for one match of
\* pattern p, or None to go on
date_of_match(p, match) ==
    IF Len(match) = 3
    THEN IF p = 3 THEN text_month_date(match[1], match[2], match[3])
         ELSE IF p = 5 THEN text_month_date(match[2], match[1], match[3])
         ELSE numeric_date(match)
    ELSE IF Len(match) = 1 /\ p = 6
    THEN compact_date(match[1])
    ELSE None

RECURSIVE first_date_of_matches(_, _)
first_date_of_matches(p, matches) ==
    IF Len(matches) = 0 THEN None
    ELSE LET d == date_of_match(p, Head(matches))
         IN  IF d # None THEN d ELSE first_date_of_matches(p, Tail(matches))

\* the date the patterns p.. return for one stripped line
RECURSIVE first_date_of_line(_, _)
first_date_of_line(line, p) ==
    IF p > NumDatePatterns THEN None
    ELSE LET d == first_date_of_matches(p, DateFindAll(p, line, 1))
         IN  IF d # None THEN d ELSE first_date_of_line(line, p + 1)

\* first_date_of_lines with the lines read from the last to the first
RECURSIVE last_date_of_lines(_)
last_date_of_lines(lines) ==
    IF Len(lines) = 0 THEN None
    ELSE LET d == first_date_of_line(strip(lines[Len(lines)]), 1)
         IN  IF d # None THEN d ELSE last_date_of_lines(SubSeq(lines, 1, Len(lines) - 1))

RECURSIVE first_date_of_lines(_)
first_date_of_lines(lines) ==
    IF Len(lines) = 0 THEN None
    ELSE LET d == first_date_of_line(strip(Head(lines)), 1)
         IN  IF d # None THEN d ELSE first_date_of_lines(Tail(lines))

\* ReceiptProcessor.extract_date(text)
extract_date(t) == first_date_of_lines(split_lines(t))

----------------------------------------------------------------------------
(* extract_merchant *)

\* merchant_indicators
MerchantIndicators == <<
    <<"s","t","o","r","e">>,
    <<"s","h","o","p">>,
    <<"m","a","r","t">>,
    <<"c","e","n","t","e","r">>,
    <<"p","l","a","z","a">>,
    <<"m","a","l","l">>,
    <<"o","u","t","l","e","t">>,
    <<"s","u","p","e","r","m","a","r","k","e","t">>,
    <<"g","r","o","c","e","r","y">>,
    <<"r","e","s","t","a","u","r","a","n","t">>,
    <<"c","a","f","e">>,
    <<"c","o","f","f","e","e">>,
    <<"c","o","r","p">>,
    <<"i","n","c">>,
    <<"l","l","c">>,
    <<"l","t","d">>,
    <<"c","o","m","p","a","n","y">>,
    <<"e","n","t","e","r","p","r","i","s","e">> >>


\* any(indicator in line_lower for indicator in merchant_indicators)
has_indicator(line) ==
    \E k \in DOMAIN MerchantIndicators : IsSubstring(MerchantIndicators[k], lower(line))

AlphaNum == Letters \cup Digits

\* re.sub(r'^[^A-Za-z0-9]+|[^A-Za-z0-9]+$', '', line)
clean_line(line) ==
    LET keep == {i \in 1..Len(line) : line[i] \in AlphaNum}
    IN  IF keep = {} THEN <<>>
        ELSE SubSeq(line, CHOOSE i \in keep : \A j \in keep : i <= j,
                          CHOOSE i \in keep : \A j \in keep : j <= i)

\* re.match(r'^[A-Z][A-Z\s&]+$', line)
is_all_caps(line) ==
    /\ Len(line) >= 2
    /\ line[1] \in Uppers
    /\ \A i \in 2..Len(line) : line[i] \in Uppers \cup Spaces \cup {"&"}

\* [A-Z][a-z]+(?:\s+[A-Z][a-z]+)*$ from position i of line
RECURSIVE title_from(_, _)
title_from(line, i) ==
    LET j == SkipSet(line, i + 1, Lowers)
        k == SkipSet(line, j, Spaces)
    IN  /\ At(line, i) \in Uppers
        /\ j > i + 1
        /\ (j > Len(line) \/ (k > j /\ title_from(line, k)))

\* re.match(r'^[A-Z][a-z]+(?:\s+[A-Z][a-z]+)*$', line)
is_title_case(line) == title_from(line, 1)

CompanySuffixes == << <<"I","n","c">>, <<"L","L","C">>, <<"L","t","d">>, <<"C","o","r","p">> >>

\* line ends with suffix w, at positions (Len(line) - Len(w) - back + 1)..
ends_with(line, w, back) ==
    /\ Len(line) - back >= Len(w)
    /\ SubSeq(line, Len(line) - back - Len(w) + 1, Len(line) - back) = w

\* re.match(r'^[A-Z][A-Za-z\s&.,-]+(?:Inc|LLC|Ltd|Corp)\.?$', line)
is_company_name(line) ==
    /\ Len(line) >= 1
    /\ line[1] \in Uppers
    /\ \E k \in DOMAIN CompanySuffixes, dot \in 0..1 :
          /\ dot = 1 => At(line, Len(line)) = "."
          /\ ends_with(line, CompanySuffixes[k], dot)
          /\ Len(line) - dot - Len(CompanySuffixes[k]) >= 2
          /\ \A i \in 2..(Len(line) - dot - Len(CompanySuffixes[k])) :
                line[i] \in Letters \cup Spaces \cup {"&", ".", ",", "-"}

\* one of merchant_patterns matches line
matches_merchant_pattern(line) ==
    is_all_caps(line) \/ is_title_case(line) \/ is_company_name(line)

\* lines[:n]
FirstLines(lines, n) == SubSeq(lines, 1, IF Len(lines) < n THEN Len(lines) ELSE n)

\* the value the first loop returns at one line, or None to go on
indicator_pass_line(raw) ==
    LET line == strip(raw)
    IN  IF Len(line) > 3 /\ Len(line) < 60
        THEN IF has_indicator(line) /\ Len(clean_line(line)) > 2
             THEN Some(clean_line(line))
             ELSE IF matches_merchant_pattern(line) THEN Some(line) ELSE None
        ELSE None

\* the first loop, over lines[:15]
RECURSIVE indicator_pass(_)
indicator_pass(lines) ==
    IF Len(lines) = 0 THEN None
    ELSE LET r == indicator_pass_line(Head(lines))
         IN  IF r # None THEN r ELSE indicator_pass(Tail(lines))

CountIn(line, S) == Cardinality({i \in 1..Len(line) : line[i] \in S})

\* score = len(line) * (letter_count / max(digit_count, 1)) as the exact
\* fraction num / den
line_score(line) ==
    [num |-> Len(line) * CountIn(line, Letters),
     den |-> IF CountIn(line, Digits) > 1 THEN CountIn(line, Digits) ELSE 1]

\* the line is scored by the second loop
is_scored(line) ==
    /\ Len(line) > 5
    /\ Len(line) < 60
    /\ CountIn(line, Letters) > CountIn(line, Digits)

\* the second loop, over lines[:10]: best is [line, num, den] so far, the
\* empty candidate having the score 0
RECURSIVE scoring_pass(_, _)
scoring_pass(lines, best) ==
    IF Len(lines) = 0 THEN best
    ELSE LET line == strip(Head(lines))
             sc   == line_score(line)
         IN  IF is_scored(line) /\ sc.num * best.den > best.num * sc.den
             THEN scoring_pass(Tail(lines), [line |-> Some(line), num |-> sc.num, den |-> sc.den])
             ELSE scoring_pass(Tail(lines), best)

\* the third loop, over lines[:8]
RECURSIVE fallback_pass(_)
fallback_pass(lines) ==
    IF Len(lines) = 0 THEN None
    ELSE LET line == strip(Head(lines))
         IN  IF Len(line) > 5 /\ Len(line) < 50 /\ CountIn(line, Digits) = 0
             THEN Some(line)
             ELSE fallback_pass(Tail(lines))

\* extract_merchant with the scoring loop run before the indicator loop
extract_merchant_scored_first(t) ==
    LET lines == split_lines(t)
        first == indicator_pass(FirstLines(lines, 15))
        best  == scoring_pass(FirstLines(lines, 10), [line |-> None, num |-> 0, den |-> 1])
    IN  IF best.line # None THEN best.line
        ELSE IF first # None THEN first
        ELSE fallback_pass(FirstLines(lines, 8))

\* ReceiptProcessor.extract_merchant(text)
extract_merchant(t) ==
    LET lines == split_lines(t)
        first == indicator_pass(FirstLines(lines, 15))
        best  == scoring_pass(FirstLines(lines, 10), [line |-> None, num |-> 0, den |-> 1])
    IN  IF first # None THEN first
        ELSE IF best.line # None THEN best.line
        ELSE fallback_pass(FirstLines(lines, 8))

----------------------------------------------------------------------------
(* categorize_expense *)

\* categories['Food & Dining']
FoodDiningKeywords == <<
    <<"r","e","s","t","a","u","r","a","n","t">>,
    <<"c","a","f","e">>,
    <<"c","o","f","f","e","e">>,
    <<"f","o","o","d">>,
    <<"d","i","n","i","n","g">>,
    <<"p","i","z","z","a">>,
    <<"b","u","r","g","e","r">>,
    <<"s","u","b","w","a","y">>,
    <<"m","c","d","o","n","a","l","d","s">>,
    <<"k","f","c">>,
    <<"d","o","m","i","n","o","s">>,
    <<"t","a","c","o"," ","b","e","l","l">>,
    <<"s","t","a","r","b","u","c","k","s">>,
    <<"w","e","n","d","y">>,
    <<"b","u","r","g","e","r"," ","k","i","n","g">>,
    <<"c","h","i","p","o","t","l","e">>,
    <<"p","a","n","e","r","a">>,
    <<"d","u","n","k","i","n">>,
    <<"m","e","x","i","c","o">>,
    <<"i","t","a","l","i","a","n">>,
    <<"c","h","i","n","e","s","e">>,
    <<"i","n","d","i","a","n">>,
    <<"s","u","s","h","i">>,
    <<"s","t","e","a","k">>,
    <<"g","r","i","l","l">>,
    <<"p","u","b">>,
    <<"b","a","r">>,
    <<"w","i","n","e">>,
    <<"b","e","e","r">> >>

\* categories['Transportation']
TransportationKeywords == <<
    <<"u","b","e","r">>,
    <<"l","y","f","t">>,
    <<"t","a","x","i">>,
    <<"g","a","s">>,
    <<"f","u","e","l">>,
    <<"p","a","r","k","i","n","g">>,
    <<"m","e","t","r","o">>,
    <<"b","u","s">>,
    <<"t","r","a","i","n">>,
    <<"f","l","i","g","h","t">>,
    <<"a","i","r","l","i","n","e">>,
    <<"c","a","r">>,
    <<"v","e","h","i","c","l","e">>,
    <<"a","u","t","o">>,
    <<"p","e","t","r","o","l">>,
    <<"d","i","e","s","e","l">>,
    <<"t","o","l","l">>,
    <<"r","e","n","t","a","l">>,
    <<"u","b","e","r"," ","e","a","t","s">>,
    <<"d","o","o","r","d","a","s","h">>,
    <<"g","r","u","b","h","u","b">> >>

\* categories['Shopping']
ShoppingKeywords == <<
    <<"s","t","o","r","e">>,
    <<"s","h","o","p">>,
    <<"m","a","l","l">>,
    <<"a","m","a","z","o","n">>,
    <<"w","a","l","m","a","r","t">>,
    <<"t","a","r","g","e","t">>,
    <<"c","l","o","t","h","i","n","g">>,
    <<"f","a","s","h","i","o","n">>,
    <<"e","l","e","c","t","r","o","n","i","c","s">>,
    <<"b","e","s","t"," ","b","u","y">>,
    <<"c","o","s","t","c","o">>,
    <<"i","k","e","a">>,
    <<"h","o","m","e"," ","d","e","p","o","t">>,
    <<"l","o","w","e","s">>,
    <<"m","a","c","y","s">>,
    <<"n","i","k","e">>,
    <<"a","d","i","d","a","s">>,
    <<"z","a","r","a">>,
    <<"u","n","i","q","l","o">>,
    <<"h","&","m">>,
    <<"g","a","p">>,
    <<"b","o","o","k","s">>,
    <<"t","o","y","s">>,
    <<"g","i","f","t">> >>

\* categories['Entertainment']
EntertainmentKeywords == <<
    <<"m","o","v","i","e">>,
    <<"c","i","n","e","m","a">>,
    <<"t","h","e","a","t","e","r">>,
    <<"n","e","t","f","l","i","x">>,
    <<"s","p","o","t","i","f","y">>,
    <<"g","a","m","e">>,
    <<"e","n","t","e","r","t","a","i","n","m","e","n","t">>,
    <<"c","o","n","c","e","r","t">>,
    <<"t","i","c","k","e","t">>,
    <<"d","i","s","n","e","y">>,
    <<"h","u","l","u">>,
    <<"y","o","u","t","u","b","e">>,
    <<"p","r","i","m","e"," ","v","i","d","e","o">>,
    <<"h","b","o">>,
    <<"p","l","a","y","s","t","a","t","i","o","n">>,
    <<"x","b","o","x">>,
    <<"n","i","n","t","e","n","d","o">>,
    <<"s","t","e","a","m">>,
    <<"a","p","p","l","e"," ","m","u","s","i","c">>,
    <<"t","i","d","a","l">> >>

\* categories['Healthcare']
HealthcareKeywords == <<
    <<"p","h","a","r","m","a","c","y">>,
    <<"d","r","u","g">>,
    <<"m","e","d","i","c","a","l">>,
    <<"d","o","c","t","o","r">>,
    <<"h","o","s","p","i","t","a","l">>,
    <<"c","l","i","n","i","c">>,
    <<"c","v","s">>,
    <<"w","a","l","g","r","e","e","n","s">>,
    <<"c","v","s"," ","p","h","a","r","m","a","c","y">>,
    <<"r","i","t","e"," ","a","i","d">>,
    <<"d","e","n","t","i","s","t">>,
    <<"o","p","t","o","m","e","t","r","i","s","t">>,
    <<"t","h","e","r","a","p","y">>,
    <<"p","r","e","s","c","r","i","p","t","i","o","n">>,
    <<"v","i","t","a","m","i","n">>,
    <<"s","u","p","p","l","e","m","e","n","t">>,
    <<"i","n","s","u","r","a","n","c","e">> >>

\* categories['Bills & Utilities']
BillsUtilitiesKeywords == <<
    <<"e","l","e","c","t","r","i","c">>,
    <<"w","a","t","e","r">>,
    <<"i","n","t","e","r","n","e","t">>,
    <<"p","h","o","n","e">>,
    <<"c","a","b","l","e">>,
    <<"u","t","i","l","i","t","y">>,
    <<"b","i","l","l">>,
    <<"p","a","y","m","e","n","t">>,
    <<"v","e","r","i","z","o","n">>,
    <<"a","t","&","t">>,
    <<"c","o","m","c","a","s","t">>,
    <<"x","f","i","n","i","t","y">>,
    <<"s","p","e","c","t","r","u","m">>,
    <<"d","u","k","e"," ","e","n","e","r","g","y">>,
    <<"p","g","&","e">>,
    <<"r","e","n","t">>,
    <<"m","o","r","t","g","a","g","e">>,
    <<"s","u","b","s","c","r","i","p","t","i","o","n">>,
    <<"m","e","m","b","e","r","s","h","i","p">>,
    <<"f","e","e">> >>

\* categories['Education']
EducationKeywords == <<
    <<"s","c","h","o","o","l">>,
    <<"u","n","i","v","e","r","s","i","t","y">>,
    <<"c","o","l","l","e","g","e">>,
    <<"b","o","o","k">>,
    <<"t","u","i","t","i","o","n">>,
    <<"e","d","u","c","a","t","i","o","n">>,
    <<"c","o","u","r","s","e">>,
    <<"s","t","u","d","e","n","t">>,
    <<"l","o","a","n">>,
    <<"t","e","x","t","b","o","o","k">>,
    <<"s","o","f","t","w","a","r","e">>,
    <<"u","d","e","m","y">>,
    <<"c","o","u","r","s","e","r","a">>,
    <<"s","k","i","l","l","s","h","a","r","e">>,
    <<"k","h","a","n"," ","a","c","a","d","e","m","y">>,
    <<"h","a","r","v","a","r","d">>,
    <<"m","i","t">>,
    <<"s","t","a","n","f","o","r","d">> >>

\* categories['Groceries']
GroceriesKeywords == <<
    <<"g","r","o","c","e","r","y">>,
    <<"m","a","r","k","e","t">>,
    <<"s","u","p","e","r","m","a","r","k","e","t">>,
    <<"w","h","o","l","e"," ","f","o","o","d","s">>,
    <<"t","r","a","d","e","r"," ","j","o","e">>,
    <<"a","l","d","i">>,
    <<"k","r","o","g","e","r">>,
    <<"s","a","f","e","w","a","y">>,
    <<"p","u","b","l","i","x">>,
    <<"w","i","n","n","-","d","i","x","i","e">>,
    <<"f","o","o","d"," ","l","i","o","n">>,
    <<"f","r","e","s","h"," ","m","a","r","k","e","t">>,
    <<"p","r","o","d","u","c","e">>,
    <<"v","e","g","e","t","a","b","l","e">> >>

\* the keys of categories, in insertion order
Categories == <<"Food & Dining", "Transportation", "Shopping", "Entertainment",
                "Healthcare", "Bills & Utilities", "Education", "Groceries", "Others">>

\* the values of categories, in the same order
Keywords == <<FoodDiningKeywords, TransportationKeywords, ShoppingKeywords,
              EntertainmentKeywords, HealthcareKeywords, BillsUtilitiesKeywords,
              EducationKeywords, GroceriesKeywords, <<>> >>

\* the test of the merchant loop for one category: the direct match, or the
\* partial match of a keyword longer than 4 characters
merchant_matches(c, merchant_lower) ==
    \/ \E k \in DOMAIN Keywords[c] : IsSubstring(Keywords[c][k], merchant_lower)
    \/ \E k \in DOMAIN Keywords[c] :
          Len(Keywords[c][k]) > 4 /\ IsSubstring(Keywords[c][k], merchant_lower)

\* the weight 1 for every line
line_weight_one(line) == 1

\* weight = 2 if any(word in line for word in ['total', 'amount', 'subtotal']) else 1
line_weight(line) ==
    IF \/ IsSubstring(<<"t","o","t","a","l">>, line)
       \/ IsSubstring(<<"a","m","o","u","n","t">>, line)
       \/ IsSubstring(<<"s","u","b","t","o","t","a","l">>, line)
    THEN 2 ELSE 1

\* keyword_score2 with the partial match only: a keyword scores when it is
\* longer than 4 characters
keyword_score2_long(keyword, line) ==
    IF Len(keyword) > 4 /\ IsSubstring(keyword, line) THEN line_weight(line)
    ELSE 0

\* twice what one keyword adds to score on one line: weight, or weight * 0.5
\* in the elif branch
keyword_score2(keyword, line) ==
    IF IsSubstring(keyword, line) THEN 2 * line_weight(line)
    ELSE IF Len(keyword) > 4 /\ IsSubstring(keyword, line) THEN line_weight(line)
    ELSE 0

RECURSIVE keywords_score2(_, _, _)
keywords_score2(keywords, k, line) ==
    IF k > Len(keywords) THEN 0
    ELSE keyword_score2(keywords[k], line) + keywords_score2(keywords, k + 1, line)

\* twice the score of category c over the stripped, non-empty lines
RECURSIVE category_score2(_, _)
category_score2(c, lines) ==
    IF Len(lines) = 0 THEN 0
    ELSE keywords_score2(Keywords[c], 1, strip(Head(lines))) + category_score2(c, Tail(lines))

\* best_category with None for "no category scored"
best_category_none(score2) ==
    LET scored == {c \in DOMAIN Categories : score2[c] > 0}
    IN  IF scored = {} THEN "None"
        ELSE Categories[CHOOSE c \in scored :
                 /\ \A d \in scored : score2[d] <= score2[c]
                 /\ \A d \in scored : d < c => score2[d] < score2[c]]

\* best_category with only the scores above 1 kept in category_scores
best_category_above_one(score2) ==
    LET scored == {c \in DOMAIN Categories : score2[c] > 2}
    IN  IF scored = {} THEN "Others"
        ELSE Categories[CHOOSE c \in scored :
                 /\ \A d \in scored : score2[d] <= score2[c]
                 /\ \A d \in scored : d < c => score2[d] < score2[c]]

\* max(category_scores, key=category_scores.get) over the categories scored
\* above 0: the first of the highest score
best_category(score2) ==
    LET scored == {c \in DOMAIN Categories : score2[c] > 0}
    IN  IF scored = {} THEN "Others"
        ELSE Categories[CHOOSE c \in scored :
                 /\ \A d \in scored : score2[d] <= score2[c]
                 /\ \A d \in scored : d < c => score2[d] < score2[c]]

\* categorize_expense without the merchant check
categorize_expense_text_only(t, merchant) ==
    best_category([c \in DOMAIN Categories |-> category_score2(c, split_lines(lower(t)))])

\* categorize_expense with the last category the merchant matches returned
categorize_expense_last_hit(t, merchant) ==
    LET merchant_lower == IF merchant = None THEN <<>> ELSE lower(merchant[1])
        hit    == {c \in DOMAIN Categories : merchant_matches(c, merchant_lower)}
        lines  == split_lines(lower(t))
        score2 == [c \in DOMAIN Categories |-> category_score2(c, lines)]
    IN  IF Len(merchant_lower) > 0 /\ hit # {}
        THEN Categories[CHOOSE c \in hit : \A d \in hit : d <= c]
        ELSE best_category(score2)

\* ReceiptProcessor.categorize_expense(text, merchant), merchant Optional
categorize_expense(t, merchant) ==
    LET merchant_lower == IF merchant = None THEN <<>> ELSE lower(merchant[1])
        hit    == {c \in DOMAIN Categories : merchant_matches(c, merchant_lower)}
        lines  == split_lines(lower(t))
        score2 == [c \in DOMAIN Categories |-> category_score2(c, lines)]
    IN  IF Len(merchant_lower) > 0 /\ hit # {}
        THEN Categories[CHOOSE c \in hit : \A d \in hit : c <= d]
        ELSE best_category(score2)

----------------------------------------------------------------------------
(* calculate_confidence *)

\* len(set(text))
distinct_chars(t) == Cardinality({t[i] : i \in 1..Len(t)})

is_leap(year) == (year % 4 = 0 /\ year % 100 # 0) \/ year % 400 = 0

days_in_month(year, month) ==
    IF month = 2 THEN (IF is_leap(year) THEN 29 ELSE 28)
    ELSE IF month \in {4, 6, 9, 11} THEN 30 ELSE 31

\* the number of characters the %m directive 1[0-2]|0[1-9]|[1-9] takes at
\* position i, the next character having to be '-'; 0 when it does not match
strptime_month_len(d, i) ==
    IF /\ \/ At(d, i) = "1" /\ At(d, i + 1) \in {"0", "1", "2"}
          \/ At(d, i) = "0" /\ At(d, i + 1) \in Digits \ {"0"}
       /\ At(d, i + 2) = "-"
    THEN 2
    ELSE IF At(d, i) \in Digits \ {"0"} /\ At(d, i + 1) = "-" THEN 1
    ELSE 0

\* the number of characters the %d directive 3[01]|[12]\d|0[1-9]|[1-9]| [1-9]
\* takes at position i; 0 when it does not match
strptime_day_len(d, i) ==
    IF \/ At(d, i) = "3" /\ At(d, i + 1) \in {"0", "1"}
       \/ At(d, i) \in {"1", "2"} /\ At(d, i + 1) \in Digits
       \/ At(d, i) = "0" /\ At(d, i + 1) \in Digits \ {"0"}
       \/ At(d, i) = " " /\ At(d, i + 1) \in Digits \ {"0"}
    THEN 2
    ELSE IF At(d, i) \in Digits \ {"0"} THEN 1
    ELSE 0

\* datetime.strptime(date, '%Y-%m-%d') returns (does not raise)
strptime_ok(d) ==
    LET ml == strptime_month_len(d, 6)
        dl == strptime_day_len(d, 7 + ml)
        year  == StrToNat(SubSeq(d, 1, 4))
        month == StrToNat(SubSeq(d, 6, 5 + ml))
        day   == StrToNat(SelectSeq(SubSeq(d, 7 + ml, 6 + ml + dl), LAMBDA c : c # " "))
    IN  /\ DigitRun(d, 1) >= 4
        /\ At(d, 5) = "-"
        /\ ml > 0
        /\ dl > 0
        /\ Len(d) = 6 + ml + dl
        /\ year >= 1
        /\ day <= days_in_month(year, month)

\* the text quality part of the score
text_quality(t) ==
    (IF Len(t) > 50 THEN 15 ELSE 0) + (IF distinct_chars(t) > 20 THEN 10 ELSE 0)

\* the amount part: 1.00 <= amount <= 10000, elif 0.01 <= amount <= 100000
amount_part(amount) ==
    IF amount = None THEN 0
    ELSE 30 + (IF Scale <= amount[1] /\ amount[1] <= 10000 * Scale THEN 15
               ELSE IF Cents(1) <= amount[1] /\ amount[1] <= 100000 * Scale THEN 10
               ELSE 0)

\* the merchant part
merchant_part(merchant) ==
    IF merchant # None /\ Len(merchant[1]) > 2
    THEN 20 + (IF Len(merchant[1]) > 5 THEN 10 ELSE 0)
    ELSE 0

\* date_part with a date that strptime rejects lowering the score
date_part_penalty(date) ==
    IF date = None THEN 0 ELSE IF strptime_ok(date[1]) THEN 25 ELSE 0 - 40

\* the date part
date_part(date) ==
    IF date = None THEN 0 ELSE 15 + (IF strptime_ok(date[1]) THEN 10 ELSE 0)

\* sum(1 for field in key_fields if field is not None)
filled_fields(amount, merchant, date) ==
    (IF amount # None THEN 1 ELSE 0) + (IF merchant # None THEN 1 ELSE 0)
        + (IF date # None THEN 1 ELSE 0)

\* the bonus with the fields that are None counted as filled
fields_bonus_none(amount, merchant, date) ==
    IF 3 - filled_fields(amount, merchant, date) >= 2
    THEN 10 * (3 - filled_fields(amount, merchant, date))
    ELSE 0

\* the bonus for having at least two of the key fields
fields_bonus(amount, merchant, date) ==
    IF filled_fields(amount, merchant, date) >= 2
    THEN 10 * filled_fields(amount, merchant, date)
    ELSE 0

\* calculate_confidence without the clamp min(score, 1.0)
calculate_confidence_unclamped(t, amount, merchant, date) ==
    text_quality(t) + amount_part(amount) + merchant_part(merchant)
        + date_part(date) + fields_bonus(amount, merchant, date)

\* ReceiptProcessor.calculate_confidence(text, amount, merchant, date), in
\* hundredths
calculate_confidence(t, amount, merchant, date) ==
    LET score == text_quality(t) + amount_part(amount) + merchant_part(merchant)
                     + date_part(date) + fields_bonus(amount, merchant, date)
    IN  IF score < 100 THEN score ELSE 100

----------------------------------------------------------------------------
(* Inputs *)

\* the largest number of lines of a text a direct call is given
MaxLines == 3

\* the texts of 1..MaxLines lines, each line from pool
TextsOver(pool) == {join_lines(ls) : ls \in UNION {[1..n -> pool] : n \in 1..MaxLines}}

\* "Subtotal 10.00\nTax 1.00\nTotal 11.00\nThank you"
NearTotalText == join_lines(<<
    <<"S","u","b","t","o","t","a","l"," ","1","0",".","0","0">>,
    <<"T","a","x"," ","1",".","0","0">>,
    <<"T","o","t","a","l"," ","1","1",".","0","0">>,
    <<"T","h","a","n","k"," ","y","o","u">> >>)

\* "19.99", "5.00"
Str1999 == <<"1","9",".","9","9">>

Str500 == <<"5",".","0","0">>

AmountLines == {
    <<"S","u","b","t","o","t","a","l"," ","1","0",".","0","0">>,
    <<"T","o","t","a","l"," ","1","1",".","0","0">>,
    <<"T","h","a","n","k"," ","y","o","u">>,
    <<"1","9",".","9","9">>,
    <<"5",".","0","0">>,
    <<"I","t","e","m"," ","1","9",".","9","9">>,
    <<"T","o","t","a","l",":"," ","$","5",".","0","0">>,
    <<"T","o","t","a","l"," ","d","u","e",":"," ","$">> }

\* "12,50"
CommaText == <<"1","2",",","5","0">>

\* "Tel 555\nTotal 9\n$5"
PhoneTotalText == <<"T","e","l"," ","5","5","5">> \o <<"\n">> \o <<"T","o","t","a","l"," ","9">> \o <<"\n">> \o <<"$","5">>

\* texts with amounts outside 0.01..999999.99: "0.00", "0.00\n5.00",
\* "1000000.00\n19.99", "Total 0.00\n$1000000"
OutOfRangeTexts == {
    <<"0",".","0","0">>,
    <<"0",".","0","0">> \o <<"\n">> \o Str500,
    <<"1","0","0","0","0","0","0",".","0","0">> \o <<"\n">> \o Str1999,
    <<"T","o","t","a","l"," ","0",".","0","0">> \o <<"\n">> \o <<"$","1","0","0","0","0","0","0">> }

\* "$5\na\nb\nTotal 15"
FarAmountText == join_lines(<< <<"$","5">>, <<"a">>, <<"b">>, <<"T","o","t","a","l"," ","1","5">> >>)

AmountTexts ==
    TextsOver(AmountLines) \cup {NearTotalText, CommaText, PhoneTotalText, FarAmountText}
        \cup OutOfRangeTexts

\* the ISO dates YYYY-MM-DD with month 01..12 and day 01..31, YYYY from IsoYears
IsoYears == { <<"2","0","2","4">>, <<"1","9","9","9">>, <<"0","9","9","9">>, <<"0","0","0","1">> }

IsoDate(year, m, d) == date_str(year, Pad2(NatToStr(m)), Pad2(NatToStr(d)))

IsoDates == {IsoDate(y, m, d) : y \in IsoYears, m \in 1..12, d \in 1..31}

DateLines == {
    <<"T","h","a","n","k"," ","y","o","u">>,
    <<"D","a","t","e",":"," ","1","5","/","0","3","/","2","0","2","4">>,
    <<"1","2","/","2","5","/","2","0","2","4">>,
    <<"5"," ","M","a","r","c","h"," ","2","0","2","4">>,
    <<"J","a","n"," ","5",","," ","2","0","2","4">>,
    <<"0","3","-","1","5","-","2","4">>,
    <<"2","0","2","4","0","3","1","5">>,
    <<"M","a","r","c","h"," ","-"," ","M","a","y">> }

\* "45 Jan 2024"
DayOutOfRangeText == <<"4","5"," ","J","a","n"," ","2","0","2","4">>

\* "20240315"
CompactText == <<"2","0","2","4","0","3","1","5">>

\* "03-15-YY" for the two-digit years YY = 00..99
TwoDigitYearText(yy) == <<"0","3","-","1","5","-">> \o Pad2(NatToStr(yy))

TwoDigitYearTexts == {TwoDigitYearText(yy) : yy \in 0..99}

\* "12/25/2024"
MonthFirstText == <<"1","2","/","2","5","/","2","0","2","4">>

DateTexts ==
    TextsOver(DateLines) \cup IsoDates \cup {DayOutOfRangeText} \cup TwoDigitYearTexts

StarbucksLine == <<"S","T","A","R","B","U","C","K","S"," ","C","O","F","F","E","E">>

CategoryLines == {
    StarbucksLine,
    <<"u","b","e","r"," ","r","i","d","e">>,
    <<"C","o","f","f","e","e">>,
    <<"T","h","a","n","k"," ","y","o","u">>,
    <<"b","o","o","k"," ","s","t","o","r","e"," ","t","o","t","a","l">> }

\* "coffees\ntaxi"
PartialMatchText == <<"c","o","f","f","e","e","s">> \o <<"\n">> \o <<"t","a","x","i">>

CategoryTexts == TextsOver(CategoryLines) \cup {PartialMatchText}

MerchantLines == CategoryLines \cup {
    <<"T","e","l"," ","5","5","5"," ","0","1","0","0">>,
    <<"-","-","-","-","-","-">> }

\* n lines "x" and then line
AfterFiller(n, line) == join_lines([i \in 1..(n + 1) |-> IF i <= n THEN <<"x">> ELSE line])

\* texts whose only line of some length is the last one lines[:15], lines[:10]
\* or lines[:8] holds, or the first one it does not hold
LongMerchantTexts == {
    AfterFiller(14, <<"C","o","f","f","e","e">>), AfterFiller(15, <<"C","o","f","f","e","e">>),
    AfterFiller(9, <<"u","b","e","r"," ","r","i","d","e">>), AfterFiller(10, <<"u","b","e","r"," ","r","i","d","e">>),
    AfterFiller(7, <<"-","-","-","-","-","-">>), AfterFiller(8, <<"-","-","-","-","-","-">>) }

MerchantTexts == TextsOver(MerchantLines) \cup LongMerchantTexts

\* the merchant arguments categorize_expense is called with for text t
MerchantArgs(t) ==
    {None, Some(<<>>), Some(StarbucksLine), Some(<<"J","o","e">>), extract_merchant(t)}

\* 60 characters, 26 of them distinct
LongText == [i \in 1..60 |-> LowerSeq[((i - 1) % 26) + 1]]

ConfidenceTexts == {
    <<>>,
    <<"u","b","e","r"," ","r","i","d","e">>,
    [i \in 1..51 |-> "x"],
    SubSeq(LongText, 1, 21),
    SubSeq(LongText, 1, 50),
    LongText }

AmountArgs == {None, Some(Cents(1)), Some(Cents(1999)), Some(Cents(1000001)),
               Some(Cents(99999999))}

MerchantValues == {None, Some(<<>>), Some(<<"J","o","e">>), Some(StarbucksLine)}

DateArgs == {None, Some(<<"2","0","2","4","-","0","3","-","1","5">>), Some(<<"9","9","9","-","0","3","-","1","5">>),
             Some(<<"2","0","2","4","-","0","2","-","3","1">>)}

\* what an OCR backend returns for an image
OcrOutputs == {
    <<>>,
    NearTotalText,
    <<" "," ","S","T","A","R","B","U","C","K","S"," ","C","O","F","F","E","E","\n","T","o","t","a","l",":"," ","$","5",".","0","0","\n","2","0","2","4","-","0","3","-","1","5","\n">>,
    <<"u","b","e","r"," ","r","i","d","e","\n","1","2","/","2","5","/","2","0","2","4","\n","1","9",".","9","9","\n","1","9",".","9","9">>,
    <<"D","a","t","e",":"," ","1","5","/","0","3","/","2","0","2","4","\n","-","-","-","-","-","-">> }

----------------------------------------------------------------------------
(* The files and requests of the web application *)

\* the requests that are served at the same time
Requests == 1..2

\* file.filename of the uploads
UploadNames == {"a.jpg", "b.jpg"}

\* the seconds datetime.now().strftime('%Y%m%d_%H%M%S') tells apart
Seconds == {0, 1}

\* the prefixes of the file names: of /api/ocr/process and of /scan_receipt
Endpoints == {"temp_receipt", "receipt"}

\* os.path.join('static', 'receipts', f"{prefix}_{second}_{file.filename}")
file_path(prefix, second, name) == <<prefix, second, name>>

Paths == {file_path(e, sec, n) : e \in Endpoints, sec \in Seconds, n \in UploadNames}

\* the content of a path that is no file; the image request r uploads is r
NoFile == 0

\* no receipt file on disk, no request received
WebInit ==
    [files |-> [f \in Paths |-> NoFile],
     req   |-> [r \in Requests |-> [pc |-> "waiting", path |-> <<>>, image |-> NoFile]]]

----------------------------------------------------------------------------
(* The processor and its calls *)

\* ReceiptProcessor.__init__: the reader is set when easyocr was imported and
\* easyocr.Reader(['en']) returned, else it is None
Init ==
    /\ easyocr_reader \in BOOLEAN
    /\ fn = "none"
    /\ pc = "idle"
    /\ faults = {}
    /\ config_i = 1
    /\ best_text = <<>>
    /\ backend_log = <<>>
    /\ exc = None
    /\ cur_text = <<>>
    /\ cur_amount = None
    /\ cur_merchant = None
    /\ cur_date = None
    /\ cur_category = ""
    /\ ret = None
    /\ result = None
    /\ raised = FALSE
    /\ web = WebInit

\* len(configs)
NumConfigs == 4

Extractors == {"extract_amount", "extract_merchant", "extract_date",
               "categorize_expense", "calculate_confidence"}

\* entries of backend_log: a call of a collaborator, and how it ended
Returned(backend) == [backend |-> backend, ok |-> TRUE]

Raised(backend) == [backend |-> backend, ok |-> FALSE]

\* a call of process_receipt(image_path) begins; the sub-extractors in f
\* will end in their except branch; the caller holds r, the value an earlier
\* call returned to it
begin_call(f, r) ==
    /\ pc \in {"idle", "done"}
    /\ fn' = "process_receipt"
    /\ pc' = "extract_text"
    /\ faults' = f
    /\ config_i' = 1
    /\ best_text' = <<>>
    /\ backend_log' = <<>>
    /\ exc' = None
    /\ cur_text' = <<>>
    /\ cur_amount' = None
    /\ cur_merchant' = None
    /\ cur_date' = None
    /\ cur_category' = ""
    /\ ret' = r
    /\ result' = None
    /\ raised' = FALSE
    /\ UNCHANGED <<web, easyocr_reader>>

\* the call of a caller that holds no earlier return value
begin_process_receipt(f) == begin_call(f, None)

\* process_receipt is called; every sub-extractor runs its try block to the end
ProcessReceipt == begin_process_receipt({})

\* process_receipt is called; some sub-extractors end in their except branch
ProcessReceiptFaulty == \E f \in SUBSET Extractors : begin_process_receipt(f)

\* extract_text with a reader: readtext returns and extract_text returns the
\* stripped text, or readtext raises and extract_text goes on to pytesseract
EasyOcr ==
    /\ pc = "extract_text"
    /\ easyocr_reader
    /\ \/ /\ \E t \in OcrOutputs : cur_text' = strip(t)
          /\ backend_log' = Append(backend_log, Returned("easyocr"))
          /\ pc' = "extract_amount"
       \/ /\ cur_text' = cur_text
          /\ backend_log' = Append(backend_log, Raised("easyocr"))
          /\ pc' = "preprocess"
    /\ UNCHANGED <<web, easyocr_reader, fn, faults, config_i, best_text, exc, cur_amount,
                   cur_merchant, cur_date, cur_category, ret, result, raised>>

\* extract_text going on to pytesseract without trying the reader
SkipEasyOcr ==
    /\ pc = "extract_text"
    /\ pc' = "preprocess"
    /\ UNCHANGED <<web, easyocr_reader, fn, faults, config_i, best_text, backend_log, exc,
                   cur_text, cur_amount, cur_merchant, cur_date, cur_category, ret,
                   result, raised>>

\* extract_text without a reader
NoEasyOcr ==
    /\ pc = "extract_text"
    /\ ~easyocr_reader
    /\ pc' = "preprocess"
    /\ UNCHANGED <<web, easyocr_reader, fn, faults, config_i, best_text, backend_log, exc,
                   cur_text, cur_amount, cur_merchant, cur_date, cur_category, ret,
                   result, raised>>

\* preprocess_image returns the cleaned image, or raises (imread returned
\* None, or an OpenCV call failed): preprocess_image and extract_text log
\* and re-raise
PreprocessImage ==
    /\ pc = "preprocess"
    /\ \/ /\ pc' = "pytesseract"
          /\ exc' = exc
          /\ backend_log' = Append(backend_log, Returned("preprocess_image"))
       \/ /\ \E e \in {"ValueError", "cv2.error"} : exc' = Some(e)
          /\ pc' = "except"
          /\ backend_log' = Append(backend_log, Raised("preprocess_image"))
    /\ UNCHANGED <<web, easyocr_reader, fn, faults, config_i, best_text, cur_text, cur_amount,
                   cur_merchant, cur_date, cur_category, ret, result, raised>>

\* best_text after image_to_string returned t
better_text(best, t) == IF Len(strip(t)) > Len(best) THEN strip(t) ELSE best

\* one turn of the loop over configs: image_to_string returns a text, or
\* raises and the loop continues
Pytesseract ==
    /\ pc = "pytesseract"
    /\ config_i <= NumConfigs
    /\ config_i' = config_i + 1
    /\ \/ /\ \E t \in OcrOutputs : best_text' = better_text(best_text, t)
          /\ backend_log' = Append(backend_log, Returned("pytesseract"))
       \/ /\ best_text' = best_text
          /\ backend_log' = Append(backend_log, Raised("pytesseract"))
    /\ UNCHANGED <<web, easyocr_reader, fn, pc, faults, exc, cur_text, cur_amount,
                   cur_merchant, cur_date, cur_category, ret, result, raised>>

\* the loop over configs ends: return best_text
ReturnBestText ==
    /\ pc = "pytesseract"
    /\ config_i > NumConfigs
    /\ cur_text' = best_text
    /\ pc' = "extract_amount"
    /\ UNCHANGED <<web, easyocr_reader, fn, faults, config_i, best_text, backend_log, exc,
                   cur_amount, cur_merchant, cur_date, cur_category, ret, result, raised>>

\* amount = self.extract_amount(text); its except branch returns None
ExtractAmount ==
    /\ pc = "extract_amount"
    /\ cur_amount' = IF "extract_amount" \in faults THEN None ELSE extract_amount(cur_text)
    /\ pc' = "extract_merchant"
    /\ UNCHANGED <<web, easyocr_reader, fn, faults, config_i, best_text, backend_log, exc,
                   cur_text, cur_merchant, cur_date, cur_category, ret, result, raised>>

\* merchant = self.extract_merchant(text); its except branch returns None
ExtractMerchant ==
    /\ pc = "extract_merchant"
    /\ cur_merchant' = IF "extract_merchant" \in faults THEN None
                       ELSE extract_merchant(cur_text)
    /\ pc' = "extract_date"
    /\ UNCHANGED <<web, easyocr_reader, fn, faults, config_i, best_text, backend_log, exc,
                   cur_text, cur_amount, cur_date, cur_category, ret, result, raised>>

\* date = self.extract_date(text); its except branch returns None
ExtractDate ==
    /\ pc = "extract_date"
    /\ cur_date' = IF "extract_date" \in faults THEN None ELSE extract_date(cur_text)
    /\ pc' = "categorize_expense"
    /\ UNCHANGED <<web, easyocr_reader, fn, faults, config_i, best_text, backend_log, exc,
                   cur_text, cur_amount, cur_merchant, cur_category, ret, result, raised>>

\* category = self.categorize_expense(text, merchant); its except branch
\* returns 'Others'
CategorizeExpense ==
    /\ pc = "categorize_expense"
    /\ cur_category' = IF "categorize_expense" \in faults THEN "Others"
                       ELSE categorize_expense(cur_text, cur_merchant)
    /\ pc' = "result"
    /\ UNCHANGED <<web, easyocr_reader, fn, faults, config_i, best_text, backend_log, exc,
                   cur_text, cur_amount, cur_merchant, cur_date, ret, result, raised>>

\* the dictionary of the try block with the confidence set to 0 when a
\* backend raised in this call
success_result_logged(t, a, m, d, c, f) ==
    [success    |-> TRUE,
     raw_text   |-> t,
     amount     |-> a,
     merchant   |-> m,
     date       |-> d,
     category   |-> c,
     confidence |-> IF \E i \in DOMAIN backend_log : ~backend_log[i].ok THEN 0
                    ELSE calculate_confidence(t, a, m, d)]

\* the dictionary of the try block; the except branch of
\* calculate_confidence returns 0.0
success_result(t, a, m, d, c, f) ==
    [success    |-> TRUE,
     raw_text   |-> t,
     amount     |-> a,
     merchant   |-> m,
     date       |-> d,
     category   |-> c,
     confidence |-> IF "calculate_confidence" \in f THEN 0
                    ELSE calculate_confidence(t, a, m, d)]

\* the dictionary of the except branch of process_receipt
failure_result(e) ==
    [success    |-> FALSE,
     error      |-> e,
     raw_text   |-> <<>>,
     amount     |-> None,
     merchant   |-> None,
     date       |-> None,
     category   |-> "Others",
     confidence |-> 0]

\* process_receipt builds result and returns it
ReturnResult ==
    /\ pc = "result"
    /\ result' = Some(success_result(cur_text, cur_amount, cur_merchant, cur_date,
                                     cur_category, faults))
    /\ pc' = "done"
    /\ UNCHANGED <<web, easyocr_reader, fn, faults, config_i, best_text, backend_log, exc,
                   cur_text, cur_amount, cur_merchant, cur_date, cur_category, ret,
                   raised>>

\* an except branch that logs and re-raises, as the one of extract_text does
handle_exception_reraise(e) == [raised |-> TRUE, result |-> None]

\* what the except branch of process_receipt does with exception e
handle_exception(e) == [raised |-> FALSE, result |-> Some(failure_result(e))]

\* except Exception as e, in process_receipt
ExceptBranch ==
    /\ pc = "except"
    /\ exc # None
    /\ result' = handle_exception(exc[1]).result
    /\ raised' = handle_exception(exc[1]).raised
    /\ exc' = None
    /\ pc' = "done"
    /\ UNCHANGED <<web, easyocr_reader, fn, faults, config_i, best_text, backend_log,
                   cur_text, cur_amount, cur_merchant, cur_date, cur_category, ret>>

Steps ==
    \/ EasyOcr
    \/ NoEasyOcr
    \/ PreprocessImage
    \/ Pytesseract
    \/ ReturnBestText
    \/ ExtractAmount
    \/ ExtractMerchant
    \/ ExtractDate
    \/ CategorizeExpense
    \/ ReturnResult
    \/ ExceptBranch

Next == ProcessReceipt \/ Steps

\* process_receipt on a processor whose OCR backends may fail
Spec == Init /\ [][Next]_vars

NextFaulty == ProcessReceiptFaulty \/ Steps

\* process_receipt when the sub-extractors too may end in their except branch
SpecFaulty == Init /\ [][NextFaulty]_vars

----------------------------------------------------------------------------
(* Direct calls of the extractors *)

\* the first call on the processor is a direct call of method f with the
\* arguments t, a, m, d, and returns r
direct_call(f, t, a, m, d, r) ==
    /\ fn = "none"
    /\ fn' = f
    /\ cur_text' = t
    /\ cur_amount' = a
    /\ cur_merchant' = m
    /\ cur_date' = d
    /\ ret' = Some(r)
    /\ raised' = FALSE
    /\ UNCHANGED <<web, easyocr_reader, pc, faults, config_i, best_text, backend_log, exc,
                   cur_category, result>>

CallExtractAmount ==
    \E t \in AmountTexts : direct_call("extract_amount", t, None, None, None, extract_amount(t))

CallExtractDate ==
    \E t \in DateTexts : direct_call("extract_date", t, None, None, None, extract_date(t))

CallExtractMerchant ==
    \E t \in MerchantTexts :
        direct_call("extract_merchant", t, None, None, None, extract_merchant(t))

CallCategorizeExpense ==
    \E t \in CategoryTexts : \E m \in MerchantArgs(t) :
        direct_call("categorize_expense", t, None, m, None, categorize_expense(t, m))

CallCalculateConfidence ==
    \E t \in ConfidenceTexts, a \in AmountArgs, m \in MerchantValues, d \in DateArgs :
        direct_call("calculate_confidence", t, a, m, d, calculate_confidence(t, a, m, d))

NextAmount == CallExtractAmount

\* direct calls of extract_amount
SpecAmount == Init /\ [][NextAmount]_vars

NextDate == CallExtractDate

\* direct calls of extract_date
SpecDate == Init /\ [][NextDate]_vars

NextExtract == CallExtractAmount \/ CallExtractDate

\* direct calls of extract_amount and extract_date
SpecExtract == Init /\ [][NextExtract]_vars

NextCategory == CallExtractMerchant \/ CallCategorizeExpense

\* direct calls of extract_merchant and categorize_expense
SpecCategory == Init /\ [][NextCategory]_vars

NextConfidence == CallCalculateConfidence

\* direct calls of calculate_confidence
SpecConfidence == Init /\ [][NextConfidence]_vars

\* process_receipt is called again by a caller that keeps the result of an
\* earlier call: the one it already holds, or the one just returned
ProcessReceiptAgain ==
    /\ fn = "process_receipt"
    /\ pc = "done"
    /\ result # None
    /\ \E r \in {ret, result} : r # None /\ begin_call({}, r)

NextCalls == CallCalculateConfidence \/ ProcessReceipt \/ ProcessReceiptAgain \/ Steps

\* a direct call of calculate_confidence, and process_receipt calls one after
\* another
SpecCalls == Init /\ [][NextCalls]_vars

----------------------------------------------------------------------------
(* The request handlers *)

\* request r is at position p
at(r, p) == web.req[r].pc = p

\* a request arrives at one of the two endpoints and the handler builds the
\* path of its file from the second and the name of the upload
NameFile(r) ==
    /\ at(r, "waiting")
    /\ \E e \in Endpoints, sec \in Seconds, n \in UploadNames :
          web' = [web EXCEPT !.req[r].pc = "named", !.req[r].path = file_path(e, sec, n)]
    /\ UNCHANGED call_vars

\* file.save(file_path): the upload is written, over a file that is there
SaveFile(r) ==
    /\ at(r, "named")
    /\ web' = [web EXCEPT !.req[r].pc = "saved", !.files[web.req[r].path] = r]
    /\ UNCHANGED call_vars

\* ocr_processor.process_receipt(file_path): the call reads the image that
\* is at the path, or finds no file
ProcessFile(r) ==
    /\ at(r, "saved")
    /\ web' = [web EXCEPT !.req[r].pc = "processed",
                          !.req[r].image = web.files[web.req[r].path]]
    /\ UNCHANGED call_vars

\* the handler removes the file: /api/ocr/process always, /scan_receipt when
\* the result has success false; os.remove of no file raises and is ignored
CleanUp(r) ==
    /\ at(r, "processed")
    /\ \E success \in (IF web.req[r].image = NoFile THEN {FALSE} ELSE BOOLEAN) :
          web' = [web EXCEPT !.req[r].pc = "done",
                             !.files[web.req[r].path] =
                                 IF web.req[r].path[1] = "temp_receipt" \/ ~success
                                 THEN NoFile ELSE @]
    /\ UNCHANGED call_vars

NextWeb == \E r \in Requests : NameFile(r) \/ SaveFile(r) \/ ProcessFile(r) \/ CleanUp(r)

\* requests served at the same time by the threads of the server
SpecWeb == Init /\ [][NextWeb]_vars

----------------------------------------------------------------------------
(* Properties *)

CategorySet == {Categories[c] : c \in DOMAIN Categories}

\* the last process_receipt call has returned
Returned_process_receipt == fn = "process_receipt" /\ pc = "done"

\* every OCR backend the call invoked raised
every_backend_raised ==
    \A i \in DOMAIN backend_log :
        backend_log[i].backend \in {"easyocr", "pytesseract"} => ~backend_log[i].ok

\* the safe defaults of a failed result
has_safe_defaults(r) ==
    /\ r.amount = None
    /\ r.merchant = None
    /\ r.date = None
    /\ r.category = "Others"
    /\ r.confidence = 0

\* C1: when every OCR backend a process_receipt call invoked has raised, the
\* call returns, without raising, a result with success false and the safe
\* defaults
C1_FailureContainment ==
    (Returned_process_receipt /\ every_backend_raised)
        => /\ ~raised
           /\ result # None
           /\ ~result[1].success
           /\ has_safe_defaults(result[1])

\* every position of a call has a step to take: the except branch has its
\* exception, and the loop over configs ends
can_step ==
    /\ pc \in {"idle", "extract_text", "preprocess", "pytesseract", "except",
               "extract_amount", "extract_merchant", "extract_date",
               "categorize_expense", "result", "done"}
    /\ pc = "except" => exc # None
    /\ pc = "pytesseract" => config_i \in 1..(NumConfigs + 1)

\* C2: process_receipt never raises and always goes on to return, and the
\* result it returns has all seven fields; a result with success false holds
\* the safe defaults and an error description
C2_WellFormedResult ==
    /\ ~raised
    /\ can_step
    /\ Returned_process_receipt =>
          /\ result # None
          /\ {"success", "raw_text", "amount", "merchant", "date", "category",
              "confidence"} \subseteq DOMAIN result[1]
          /\ result[1].success \in BOOLEAN
          /\ result[1].category \in CategorySet
          /\ result[1].confidence \in 0..100
          /\ ~result[1].success =>
                has_safe_defaults(result[1]) /\ "error" \in DOMAIN result[1]

\* C2 witness: a call whose image could not be preprocessed has returned a
\* failed result, in a call where a sub-extractor was to fail too
C2_Witness ==
    /\ Returned_process_receipt
    /\ result # None
    /\ ~result[1].success
    /\ faults # {}

\* C3: extract_amount returns 11.00 for
\* "Subtotal 10.00\nTax 1.00\nTotal 11.00\nThank you"
C3_NearTotal ==
    (fn = "extract_amount" /\ cur_text = NearTotalText) => ret = Some(Some(Cents(1100)))

\* the number of places at which needle occurs in hay
Occurrences(needle, hay) ==
    Cardinality({i \in 0..(Len(hay) - Len(needle)) :
                    \A k \in 1..Len(needle) : hay[i + k] = needle[k]})

\* t writes "19.99" twice and "5.00" once and has no other digit
twice_1999_once_500(t) ==
    /\ Occurrences(Str1999, t) = 2
    /\ Occurrences(Str500, t) = 1
    /\ CountIn(t, Digits) = 11

\* C4: extract_amount returns 19.99 for every text that writes "19.99" twice,
\* "5.00" once and no other amount
C4_FrequencyRule ==
    (fn = "extract_amount" /\ twice_1999_once_500(cur_text))
        => ret = Some(Some(Cents(1999)))

\* C5: extract_date returns D for a text that is the ISO date D
C5_IsoRoundTrip ==
    (fn = "extract_date" /\ cur_text \in IsoDates) => ret = Some(Some(cur_text))

\* C6: extract_amount and extract_date return None for a text without digits
C6_NoDigitsNoValue ==
    (fn \in {"extract_amount", "extract_date"} /\ CountIn(cur_text, Digits) = 0)
        => ret = Some(None)

\* C6 witness: extract_amount was called with a text that has a total label
\* and a currency symbol, and no digit
C6_Witness ==
    /\ fn = "extract_amount"
    /\ CountIn(cur_text, Digits) = 0
    /\ is_total_line(cur_text)
    /\ CountIn(cur_text, CurrencyChars) > 0
    /\ ret = Some(None)

\* C7: calculate_confidence with amount, merchant and date all None returns
\* at most 0.45
C7_ConfidenceOfNothing ==
    (fn = "calculate_confidence" /\ cur_amount = None /\ cur_merchant = None
        /\ cur_date = None) => ret[1] <= 45

\* C7 witness: the call with nothing extracted from a long text of many
\* distinct characters
C7_Witness ==
    /\ fn = "calculate_confidence"
    /\ cur_amount = None
    /\ cur_merchant = None
    /\ cur_date = None
    /\ Len(cur_text) > 50
    /\ distinct_chars(cur_text) > 20
    /\ ret = Some(25)

\* C8: categorize_expense returns one of the nine categories and does not
\* raise, whatever the text and the merchant
C8_ClosedCategorySet ==
    fn = "categorize_expense" => (ret[1] \in CategorySet /\ ~raised)

\* C8 witness: the call with the empty string as merchant and a text of which
\* no line has a keyword
C8_Witness ==
    /\ fn = "categorize_expense"
    /\ cur_merchant = Some(<<>>)
    /\ Len(cur_text) > 0
    /\ ret = Some("Others")

\* the first line of t
first_line(t) == split_lines(t)[1]

\* C9: for a text whose first line is "STARBUCKS COFFEE", extract_merchant
\* returns that line, and categorize_expense with that merchant returns
\* 'Food & Dining'
C9_Starbucks ==
    /\ (fn = "extract_merchant" /\ first_line(cur_text) = StarbucksLine)
          => ret = Some(Some(StarbucksLine))
    /\ (fn = "categorize_expense" /\ first_line(cur_text) = StarbucksLine
           /\ cur_merchant = Some(StarbucksLine))
          => ret = Some("Food & Dining")

\* C9 witness: categorize_expense was called with that merchant and a text
\* whose other lines score more for Shopping than the first for Food & Dining
C9_Witness ==
    /\ fn = "categorize_expense"
    /\ first_line(cur_text) = StarbucksLine
    /\ cur_merchant = Some(StarbucksLine)
    /\ categorize_expense_text_only(cur_text, cur_merchant) = "Shopping"
    /\ ret = Some("Food & Dining")

\* t contains the words "uber" and "ride", in any case
has_uber_ride(t) ==
    /\ IsSubstring(<<"u","b","e","r">>, lower(t))
    /\ IsSubstring(<<"r","i","d","e">>, lower(t))

\* no keyword of a category other than Transportation occurs in t
only_transportation_keywords(t) ==
    \A c \in DOMAIN Categories : \A k \in DOMAIN Keywords[c] :
        Categories[c] # "Transportation" => ~IsSubstring(Keywords[c][k], lower(t))

\* C10 as stated: with no merchant, categorize_expense returns
\* 'Transportation' for every text that contains "uber" and "ride"
C10_UberRide ==
    (fn = "categorize_expense" /\ cur_merchant = None /\ has_uber_ride(cur_text))
        => ret = Some("Transportation")

\* C10 amended: with no merchant, categorize_expense returns 'Transportation'
\* for every text that contains "uber" and "ride" and no keyword of another
\* category
C10_UberRideOnly ==
    (fn = "categorize_expense" /\ cur_merchant = None /\ has_uber_ride(cur_text)
        /\ only_transportation_keywords(cur_text))
        => ret = Some("Transportation")

\* C10 witness: such a call with a text of several lines
C10_Witness ==
    /\ fn = "categorize_expense"
    /\ cur_merchant = None
    /\ has_uber_ride(cur_text)
    /\ only_transportation_keywords(cur_text)
    /\ Len(split_lines(cur_text)) > 1
    /\ ret = Some("Transportation")

\* some keyword of some category occurs in s, a lowercased string
has_keyword(s) ==
    \E c \in DOMAIN Categories : \E k \in DOMAIN Keywords[c] :
        IsSubstring(Keywords[c][k], s)

\* no keyword occurs in the merchant or in the text, whatever their case
no_keyword_anywhere(t, merchant) ==
    /\ ~has_keyword(lower(t))
    /\ merchant # None => ~has_keyword(lower(merchant[1]))

\* C11: categorize_expense returns 'Others' when no keyword of any category
\* occurs in the merchant or on a line of the text, and only then
C11_OthersFallback ==
    fn = "categorize_expense"
        => (ret = Some("Others") <=> no_keyword_anywhere(cur_text, cur_merchant))

\* C11 witness: a call with a merchant and a text of several lines, none with
\* a keyword, has returned 'Others'
C11_Witness ==
    /\ fn = "categorize_expense"
    /\ cur_merchant # None
    /\ Len(cur_merchant[1]) > 0
    /\ Len(split_lines(cur_text)) > 1
    /\ no_keyword_anywhere(cur_text, cur_merchant)
    /\ ret = Some("Others")

\* C12: for a fixed text, calculate_confidence does not decrease when an
\* amount is added to nothing, then a merchant to the amount, then a date to
\* the amount and the merchant
C12_ConfidenceMonotone ==
    fn = "calculate_confidence" =>
        /\ (cur_amount # None /\ cur_merchant = None /\ cur_date = None)
              => ret[1] >= calculate_confidence(cur_text, None, None, None)
        /\ (cur_amount # None /\ cur_merchant # None /\ cur_date = None)
              => ret[1] >= calculate_confidence(cur_text, cur_amount, None, None)
        /\ (cur_amount # None /\ cur_merchant # None /\ cur_date # None)
              => ret[1] >= calculate_confidence(cur_text, cur_amount, cur_merchant, None)

\* C12 witness: the last step of the chain, on a score below the clamp: the
\* call with all three fields returned more than the call without the date
C12_Witness ==
    /\ fn = "calculate_confidence"
    /\ cur_amount # None
    /\ cur_merchant # None
    /\ cur_date # None
    /\ ret[1] < 100
    /\ ret[1] > calculate_confidence(cur_text, cur_amount, cur_merchant, None)
    /\ calculate_confidence(cur_text, cur_amount, cur_merchant, None)
          > calculate_confidence(cur_text, cur_amount, None, None)

\* C13: calculate_confidence returns a value in [0, 1], and so is the
\* confidence of every result process_receipt returns
C13_ConfidenceRange ==
    /\ fn = "calculate_confidence" => (0 <= ret[1] /\ ret[1] <= 100)
    /\ Returned_process_receipt =>
          (result # None /\ 0 <= result[1].confidence /\ result[1].confidence <= 100)

\* C13 witness: process_receipt has returned a result whose score reached the
\* clamp
C13_Witness ==
    /\ Returned_process_receipt
    /\ result # None
    /\ result[1].success
    /\ result[1].confidence = 100
    /\ calculate_confidence_unclamped(result[1].raw_text, result[1].amount,
                                      result[1].merchant, result[1].date) > 100

\* the caller holds the successful result of an earlier process_receipt call
\* and the call just returned is successful too, on the same text
same_text_twice ==
    /\ Returned_process_receipt
    /\ ret # None
    /\ result # None
    /\ ret[1].success
    /\ result[1].success
    /\ ret[1].raw_text = result[1].raw_text

calls_of(backend) == {i \in DOMAIN backend_log : backend_log[i].backend = backend}

\* C15: extract_text calls the backends one after another in a fixed order:
\* easyocr first when there is a reader; preprocess_image and pytesseract
\* only when there is no reader or easyocr has raised; nothing after easyocr
\* returned, whose stripped text is the text of the call; and the k-th
\* pytesseract call is the one of configs[k]
C15_SequentialFallback ==
    fn = "process_receipt" =>
        /\ calls_of("easyocr") \subseteq (IF easyocr_reader THEN {1} ELSE {})
        /\ (easyocr_reader /\ backend_log # <<>>) => backend_log[1].backend = "easyocr"
        /\ (calls_of("preprocess_image") \cup calls_of("pytesseract")) # {}
              => (~easyocr_reader \/ backend_log[1] = Raised("easyocr"))
        /\ (backend_log # <<>> /\ backend_log[1] = Returned("easyocr")) =>
              /\ Len(backend_log) = 1
              /\ cur_text \in {strip(t) : t \in OcrOutputs}
              /\ (pc = "done" => (result # None /\ result[1].raw_text = cur_text))
        /\ Cardinality(calls_of("pytesseract")) = config_i - 1
        /\ config_i <= NumConfigs + 1
        /\ \A i \in calls_of("pytesseract") :
              /\ i > 1
              /\ backend_log[i - 1] \in {Returned("preprocess_image"),
                                         Returned("pytesseract"), Raised("pytesseract")}
        /\ \A i \in calls_of("preprocess_image") :
              \A j \in calls_of("pytesseract") : i < j

\* C15 witness: a call with a reader has returned after easyocr raised and
\* all the configurations were tried, the first of which raised
C15_Witness ==
    /\ Returned_process_receipt
    /\ easyocr_reader
    /\ Len(backend_log) = NumConfigs + 2
    /\ backend_log[1] = Raised("easyocr")
    /\ backend_log[2] = Returned("preprocess_image")
    /\ backend_log[3] = Raised("pytesseract")
    /\ backend_log[NumConfigs + 2] = Returned("pytesseract")
    /\ result # None
    /\ Len(result[1].raw_text) > 0

\* C16: extract_amount returns 12.50 for the text "12,50", the comma taken as
\* the decimal point
C16_CommaDecimal ==
    (fn = "extract_amount" /\ cur_text = CommaText) => ret = Some(Some(Cents(1250)))

\* a line of t is one of the amounts "5.00" and "19.99" alone
has_plain_amount_line(t) ==
    \E i \in DOMAIN split_lines(t) : split_lines(t)[i] \in {Str500, Str1999}

\* C17: a value extract_amount returns is in 0.01..999999.99, and a text with
\* a line "5.00" or "19.99" has a value returned whatever out-of-range values
\* its other lines hold
C17_AmountRange ==
    fn = "extract_amount" =>
        /\ ~raised
        /\ ret[1] # None => (Cents(1) <= ret[1][1] /\ ret[1][1] <= Cents(99999999))
        /\ has_plain_amount_line(cur_text) => ret[1] # None
        /\ cur_text \in OutOfRangeTexts =>
              ret = Some(IF has_plain_amount_line(cur_text)
                         THEN Some(to_float(split_lines(cur_text)[2])[1]) ELSE None)

\* C17 witness: the call on "1000000.00\n19.99" has returned 19.99
C17_Witness ==
    /\ fn = "extract_amount"
    /\ cur_text \in OutOfRangeTexts
    /\ to_float(split_lines(cur_text)[1]) = Some(Cents(100000000))
    /\ ret = Some(Some(Cents(1999)))

\* the candidates of t whose decimal or integer representation appears on a
\* total line of t or within two lines of it, as indices into the candidates
near_total_candidates(t) ==
    {h[3] : h \in near_total_hits(split_lines(t), amounts_of_lines(split_lines(t)))}

\* C18: with no candidate at all extract_amount returns None; with
\* candidates none of which occurs twice it returns the first candidate
\* whose representation appears on a total line or within two lines of it,
\* and the largest candidate when there is none
C18_DisambiguationOrder ==
    fn = "extract_amount" =>
        LET amounts == amounts_of_lines(split_lines(cur_text))
            near    == near_total_candidates(cur_text)
        IN  /\ amounts = <<>> => ret = Some(None)
            /\ (amounts # <<>> /\ \A i \in DOMAIN amounts : Count(amounts, amounts[i]) = 1)
                  => ret = Some(Some(IF near # {}
                                     THEN amounts[CHOOSE k \in near : \A j \in near : k <= j]
                                     ELSE max_amount(amounts)))

\* the month and the day of a date string that ends in -MM-DD
month_of(d) == StrToNat(SubSeq(d, Len(d) - 4, Len(d) - 3))

day_of(d) == StrToNat(SubSeq(d, Len(d) - 1, Len(d)))

\* C19: a date extract_date returns has its month in 1..12 and its day in
\* 1..31, whichever pattern matched it
C19_DateValidated ==
    (fn = "extract_date" /\ ret[1] # None) =>
        /\ month_of(ret[1][1]) \in 1..12
        /\ day_of(ret[1][1]) \in 1..31

\* C20: extract_date returns "2024-03-15" for the text "20240315"
C20_CompactDate ==
    (fn = "extract_date" /\ cur_text = CompactText)
        => ret = Some(Some(<<"2","0","2","4","-","0","3","-","1","5">>))

\* the lines of t on which some pattern yields a match that validates
dated_lines(t) ==
    {i \in DOMAIN split_lines(t) : first_date_of_line(strip(split_lines(t)[i]), 1) # None}

\* the patterns that yield a validating match on line
dating_patterns(line) ==
    {p \in 1..NumDatePatterns : first_date_of_matches(p, DateFindAll(p, line, 1)) # None}

\* C21: extract_date returns None when no line has a validating match; else
\* the date comes from the earliest such line and from the earliest pattern
\* that validates on it, and is the date of the text cut after that line
C21_DatePrecedence ==
    fn = "extract_date" =>
        LET lines == split_lines(cur_text)
            dated == dated_lines(cur_text)
            i     == CHOOSE k \in dated : \A j \in dated : k <= j
            line  == strip(lines[i])
            p     == CHOOSE q \in dating_patterns(line) :
                         \A r \in dating_patterns(line) : q <= r
        IN  IF dated = {} THEN ret = Some(None)
            ELSE /\ ret = Some(first_date_of_matches(p, DateFindAll(p, line, 1)))
                 /\ ret = Some(extract_date(join_lines(SubSeq(lines, 1, i))))

\* C21 witness: two lines of the text hold different dates, with a line
\* without a date before them, and the date of the first of them is returned
C21_Witness ==
    /\ fn = "extract_date"
    /\ Cardinality(dated_lines(cur_text)) = 2
    /\ 1 \notin dated_lines(cur_text)
    /\ \E i \in dated_lines(cur_text) : \E j \in dated_lines(cur_text) :
          /\ i < j
          /\ extract_date(split_lines(cur_text)[i]) # extract_date(split_lines(cur_text)[j])
          /\ ret = Some(extract_date(split_lines(cur_text)[i]))

\* the year of a date string that ends in -MM-DD
year_of(d) == SubSeq(d, 1, Len(d) - 6)

\* C22: for the text "03-15-YY" extract_date returns the 15th of March of
\* the year 2000 + YY when YY < 50 and of 1900 + YY otherwise
C22_TwoDigitYear ==
    \A yy \in 0..99 :
        (fn = "extract_date" /\ cur_text = TwoDigitYearText(yy)) =>
            /\ ret[1] # None
            /\ year_of(ret[1][1]) = NatToStr(IF yy < 50 THEN 2000 + yy ELSE 1900 + yy)
            /\ month_of(ret[1][1]) = 3
            /\ day_of(ret[1][1]) = 15

\* C22 witness: the call on "03-15-50" has returned a date of 1950
C22_Witness ==
    /\ fn = "extract_date"
    /\ cur_text = TwoDigitYearText(50)
    /\ ret = Some(Some(<<"1","9","5","0","-","0","3","-","1","5">>))

\* the stripped line i of t
stripped_line(t, i) == strip(split_lines(t)[i])

\* the lines among the first 15 of t, of 4 to 59 characters, that contain a
\* merchant indicator or have one of the structural shapes
indicated_lines(t) ==
    {i \in DOMAIN split_lines(t) :
        /\ i <= 15
        /\ Len(stripped_line(t, i)) \in 4..59
        /\ has_indicator(stripped_line(t, i)) \/ matches_merchant_pattern(stripped_line(t, i))}

\* the lines among the first 10 of t, of 6 to 59 characters, with more
\* letters than digits
scored_lines(t) ==
    {i \in DOMAIN split_lines(t) : i <= 10 /\ is_scored(stripped_line(t, i))}

\* line i of t scores at least as much as line j
scores_at_least(t, i, j) ==
    line_score(stripped_line(t, i)).num * line_score(stripped_line(t, j)).den
        >= line_score(stripped_line(t, j)).num * line_score(stripped_line(t, i)).den

\* the lines among the first 8 of t, of 6 to 49 characters, without a digit
fallback_lines(t) ==
    {i \in DOMAIN split_lines(t) :
        /\ i <= 8
        /\ Len(stripped_line(t, i)) \in 6..49
        /\ CountIn(stripped_line(t, i), Digits) = 0}

\* C23: extract_merchant returns the first indicated line, cleaned when it
\* has an indicator, whatever the scores; without indicated lines a scored
\* line of the highest score; without scored lines the first fallback line;
\* and None without any
C23_MerchantPasses ==
    fn = "extract_merchant" =>
        LET t  == cur_text
            Q  == indicated_lines(t)
            S  == scored_lines(t)
            F  == fallback_lines(t)
            q  == CHOOSE i \in Q : \A j \in Q : i <= j
            f  == CHOOSE i \in F : \A j \in F : i <= j
        IN  IF Q # {}
            THEN ret = Some(Some(IF has_indicator(stripped_line(t, q))
                                 THEN clean_line(stripped_line(t, q))
                                 ELSE stripped_line(t, q)))
            ELSE IF S # {}
            THEN \E i \in S : /\ \A j \in S : scores_at_least(t, i, j)
                                /\ ret = Some(Some(stripped_line(t, i)))
            ELSE IF F # {} THEN ret = Some(Some(stripped_line(t, f)))
            ELSE ret = Some(None)

\* C23 witness: the indicated line that is returned is not the first line and
\* a line before it has a higher score
C23_Witness ==
    /\ fn = "extract_merchant"
    /\ indicated_lines(cur_text) # {}
    /\ 1 \notin indicated_lines(cur_text)
    /\ 1 \in scored_lines(cur_text)
    /\ \A i \in scored_lines(cur_text) : scores_at_least(cur_text, 1, i)
    /\ ret # Some(Some(stripped_line(cur_text, 1)))
    /\ ret # Some(None)

\* the categories of which a keyword occurs in s, a lowercased string
keyword_categories(s) ==
    {c \in DOMAIN Categories : \E k \in DOMAIN Keywords[c] : IsSubstring(Keywords[c][k], s)}

\* C24: when the lowercased merchant contains a keyword, categorize_expense
\* returns the first category in the enumeration order that has such a
\* keyword, whatever the text
C24_MerchantPrecedence ==
    (fn = "categorize_expense" /\ cur_merchant # None
        /\ keyword_categories(lower(cur_merchant[1])) # {}) =>
        LET hit == keyword_categories(lower(cur_merchant[1]))
        IN  ret = Some(Categories[CHOOSE c \in hit : \A d \in hit : c <= d])

\* C24 witness: the merchant has keywords of two categories and the text
\* alone scores highest for a third one
C24_Witness ==
    /\ fn = "categorize_expense"
    /\ cur_merchant # None
    /\ Cardinality(keyword_categories(lower(cur_merchant[1]))) >= 2
    /\ \E c \in DOMAIN Categories :
          /\ c \notin keyword_categories(lower(cur_merchant[1]))
          /\ Categories[c] = categorize_expense_text_only(cur_text, cur_merchant)
    /\ ret = Some("Shopping")

\* the pairs (line, keyword of category c) of which the keyword occurs on the
\* line, lines being those of the lowercased text
keyword_hits(c, lines) ==
    {h \in (DOMAIN lines) \X (DOMAIN Keywords[c]) : IsSubstring(Keywords[c][h[2]], lines[h[1]])}

\* the lines that contain "total", "amount" or "subtotal"
weighted_lines(lines) ==
    {i \in DOMAIN lines :
        \E w \in { <<"t","o","t","a","l">>, <<"a","m","o","u","n","t">>, <<"s","u","b","t","o","t","a","l">> } :
            IsSubstring(w, lines[i])}

\* the aggregate score of category c: 1 for each keyword found on a line, 2
\* on a weighted line
text_score(c, lines) ==
    LET hits  == keyword_hits(c, lines)
        heavy == weighted_lines(lines)
    IN  Cardinality(hits) + Cardinality({h \in hits : h[1] \in heavy})

\* C25: when the merchant matches no keyword, categorize_expense returns the
\* category of the highest aggregate score, the earliest in the enumeration
\* order among those that share it, and 'Others' when every score is 0
C25_TextScoring ==
    (fn = "categorize_expense"
        /\ (cur_merchant = None \/ keyword_categories(lower(cur_merchant[1])) = {})) =>
        LET lines == split_lines(lower(cur_text))
            score == [c \in DOMAIN Categories |-> text_score(c, lines)]
            top   == {c \in DOMAIN Categories : \A d \in DOMAIN Categories : score[d] <= score[c]}
            best  == CHOOSE c \in top : \A d \in top : c <= d
        IN  ret = Some(IF score[best] > 0 THEN Categories[best] ELSE "Others")

\* C25 witness: the weight of a total line decides: the category returned
\* has no more keyword hits than an earlier category, and a higher score
C25_Witness ==
    /\ fn = "categorize_expense"
    /\ cur_merchant = None
    /\ LET lines == split_lines(lower(cur_text))
       IN  \E c \in DOMAIN Categories : \E d \in 1..(c - 1) :
               /\ ret = Some(Categories[c])
               /\ Cardinality(keyword_hits(d, lines)) > 0
               /\ Cardinality(keyword_hits(c, lines)) <= Cardinality(keyword_hits(d, lines))
               /\ text_score(c, lines) > text_score(d, lines)

\* C26: for the text "coffees\ntaxi" and no merchant, "coffee" is on its
\* line only as a part of a word and adds 0.5 to Food & Dining, "taxi" adds 1
\* to Transportation, and categorize_expense returns 'Transportation'
C26_PartialHalfWeight ==
    (fn = "categorize_expense" /\ cur_merchant = None /\ cur_text = PartialMatchText)
        => ret = Some("Transportation")

\* C27: the date extract_date returns for the text "12/25/2024", when it
\* returns one, is of the year 2024
C27_FourDigitYear ==
    (fn = "extract_date" /\ cur_text = MonthFirstText /\ ret[1] # None)
        => year_of(ret[1][1]) = <<"2","0","2","4">>

\* extract_amount returns from the loops of the near-total rule for t: no
\* amount was counted twice and the loops have a hit
by_near_total_rule(t) ==
    LET lines   == split_lines(t)
        amounts == amounts_of_lines(lines)
    IN  /\ amounts # <<>>
        /\ most_common_first(amounts).count = 1
        /\ near_total_hits(lines, amounts) # {}

\* the amounts matched on the total lines of t and on the two lines before
\* and after each
window_amounts(t) ==
    LET lines == split_lines(t)
    IN  UNION { {amounts_of_line(strip(lines[j]), 1)[k] :
                    k \in DOMAIN amounts_of_line(strip(lines[j]), 1)} :
                j \in UNION {near_window(lines, i) :
                                i \in {n \in DOMAIN lines : is_total_line(lines[n])} } }

\* C28: a value extract_amount returns by the near-total rule was matched on
\* a line of the window of a total line
C28_NearTotalFromWindow ==
    (fn = "extract_amount" /\ by_near_total_rule(cur_text))
        => (ret[1] # None /\ ret[1][1] \in window_amounts(cur_text))

\* C29: a merchant name extract_merchant returns contains a letter
C29_MerchantHasLetter ==
    (fn = "extract_merchant" /\ ret[1] # None) => CountIn(ret[1][1], Letters) > 0

\* C30: a request to /api/ocr/process whose file is saved finds its own
\* image at its path until process_receipt has read it, and process_receipt
\* reads that image, whatever the other request does
C30_NoInterference ==
    \A r \in Requests :
        (web.req[r].pc # "waiting" /\ web.req[r].path[1] = "temp_receipt") =>
            /\ at(r, "saved") => web.files[web.req[r].path] = r
            /\ (at(r, "processed") \/ at(r, "done")) => web.req[r].image = r

====
